---- MODULE Spec2Model ----
(***************************************************************************)
(* Model of the retrieval-augmented query handler of faiss-rag-agent       *)
(* (src/lambda/query_handler.py): the usage limiter over the usage table,  *)
(* the per-org index cache and the request pipeline of lambda_handler,    *)
(* identity resolution (also that of query_handler_fixed.py) and           *)
(* search_faiss.                                                           *)
(***************************************************************************)
EXTENDS Integers, Sequences, FiniteSets, TLC

\* ------------------------------------------------------------------ bounds
\* Usage increments made or under way in a behaviour of Spec before its last
\* invocation of lambda_handler starts.
MaxIncrements == 3
\* Last instant of the clock; it falls on the day after the instants before it.
MaxNow == 2
\* Cap on the stored count of an unlimited (pro) identity in SpecLimiter.
MaxProCount == 2
\* Direct calls of load_index_for_org in a behaviour of SpecCache.
MaxLoads == 3
\* Largest k passed to search_faiss.
MaxK == 3

\* ------------------------------------------------------------ the universe
\* Executions of lambda_handler in the serving process under study; the other
\* serving processes act on the usage table through OtherIncrement.
Procs == {"p1"}
\* Direct callers of the limiter's two operations (SpecLimiter).
Callers == {"c1", "c2", "c3"}
Orgs == {"aws-samples", "other-org"}
Tiers == {"anonymous", "free", "pro"}
Dates == {0, 1}

\* A value a mapping has no entry for (dict.get's default applies).
Missing == "<missing>"
NoKey == "<nokey>"

\* datetime.now().strftime('%Y-%m-%d') at instant t.
DateOf(t) == IF t < MaxNow THEN 0 ELSE 1

\* ------------------------------------------------- identity (get_user_id)
\* The marketplace user table, scanned by awsFinderApiKey.
UserOfKey(k) ==
  CASE k = "key_free" -> [user_id |-> "u_free", tier |-> "free"]
    [] k = "key_pro" -> [user_id |-> "u_pro", tier |-> "pro"]
    [] OTHER -> [user_id |-> Missing, tier |-> Missing]

\* Mutant of get_user_from_api_key: a key whose scan raised is taken for a
\* free account.
get_user_from_api_key_trusting(k, scan_ok) ==
  IF scan_ok THEN UserOfKey(k) ELSE [user_id |-> "u_free", tier |-> "free"]

\* get_user_from_api_key: the account of the key, or None (Missing) when the
\* scan finds nothing or raises.
get_user_from_api_key(k, scan_ok) ==
  IF scan_ok THEN UserOfKey(k) ELSE [user_id |-> Missing, tier |-> Missing]

\* The api key get_user_id settles on: query string, then x-api-key header,
\* then the Authorization header with 'Bearer ' removed, then the body field
\* (read only when the event has a 'body').
ApiKeyOf(e) ==
  IF e.qs_apikey # NoKey THEN e.qs_apikey
  ELSE IF e.h_xapikey # NoKey THEN e.h_xapikey
  ELSE IF e.h_auth # NoKey THEN e.h_auth
  ELSE IF e.shape \in {"json"} THEN e.b_apikey
  ELSE NoKey

\* f"{source_ip}_{hash(user_agent) % 10000}"
Fingerprint(ip, ua) ==
  CASE ip = "ip1" -> "ip1_h"
    [] OTHER -> "unknown_h"

\* hash(user_agent) of a str is salted with a seed drawn when the interpreter
\* starts: the value Fingerprint uses is that of the process the model follows
\* ("home"); a process with another seed computes another value.
HashSeeds == {"home", "other"}
FingerprintIn(seed, ip, ua) ==
  IF seed = "home" THEN Fingerprint(ip, ua)
  ELSE CASE ip = "ip1" -> "ip1_h2"
         [] OTHER -> "unknown_h2"

\* get_user_id(event) in a serving process whose hash seed is seed.
get_user_id_in(seed, e, scan_ok) ==
  LET k == ApiKeyOf(e)
      u == get_user_from_api_key(k, scan_ok)
  IN IF k # NoKey /\ u.user_id # Missing
       THEN u
       ELSE [user_id |-> FingerprintIn(seed, e.sourceIp, e.userAgent),
             tier |-> "anonymous"]

\* get_user_id(event) -> (user_id, tier)
get_user_id(e, scan_ok) ==
  LET k == ApiKeyOf(e)
      u == get_user_from_api_key(k, scan_ok)
  IN IF k # NoKey /\ u.user_id # Missing
       THEN u
       ELSE [user_id |-> Fingerprint(e.sourceIp, e.userAgent), tier |-> "anonymous"]

\* --------------- identity with marketplace sessions (query_handler_fixed.py)
\* The marketplace session table joined with the user table: the account a
\* live session belongs to.
UserOfSession(s) ==
  CASE s = "sess_free" -> [user_id |-> "u_free", tier |-> "free"]
    [] s = "sess_pro" -> [user_id |-> "u_pro", tier |-> "pro"]
    [] OTHER -> [user_id |-> Missing, tier |-> Missing]

\* The user table queried through its EmailIndex.
UserOfEmail(m) ==
  CASE m = "free@x" -> [user_id |-> "u_free", tier |-> "free"]
    [] OTHER -> [user_id |-> Missing, tier |-> Missing]

\* get_user_from_session: the account of the session with tier 'free'
\* whatever the account record says; None when a lookup finds nothing or raises.
get_user_from_session(s, session_ok) ==
  IF session_ok /\ UserOfSession(s).user_id # Missing
    THEN [user_id |-> UserOfSession(s).user_id, tier |-> "free"]
    ELSE [user_id |-> Missing, tier |-> Missing]

\* get_user_from_email: likewise, by email.
get_user_from_email(m, email_ok) ==
  IF email_ok /\ UserOfEmail(m).user_id # Missing
    THEN [user_id |-> UserOfEmail(m).user_id, tier |-> "free"]
    ELSE [user_id |-> Missing, tier |-> Missing]

\* marketplace == 'true' in the query string, else in the body when the event
\* has a 'body' that parses.
is_marketplace(e) == e.qs_marketplace \/ (e.shape = "json" /\ e.b_marketplace)

\* The session token: the bearer token of the Authorization header, replaced
\* by the marketplace_session cookie when there is one.
SessionTokenOf(e) == IF e.h_cookie # NoKey THEN e.h_cookie ELSE e.h_auth

\* get_user_id(event) of query_handler_fixed.py: with marketplace=true the
\* session, then the email; after that the api-key logic of get_user_id.
get_user_id_fixed(e, session_ok, email_ok, scan_ok) ==
  LET s == SessionTokenOf(e)
      su == get_user_from_session(s, session_ok)
      eu == get_user_from_email(e.qs_email, email_ok)
  IN IF is_marketplace(e) /\ s # NoKey /\ su.user_id # Missing THEN su
     ELSE IF is_marketplace(e) /\ e.qs_email # NoKey /\ eu.user_id # Missing THEN eu
     ELSE get_user_id(e, scan_ok)

UserIds == {"ip1_h", "u_free", "u_pro"}

\* ------------------------------------------------------- the usage table
NoItem == [present |-> FALSE, count |-> 0, tier |-> "", timestamp |-> 0]

\* table.get_item(Key={'user_id': user_id, 'date': today})
get_item(tbl, uid, d) == tbl[uid][d]

\* response.get('Item', {}).get('count', 0)
current_count(item) == IF item.present THEN item.count ELSE 0

\* limits.get(tier, 3): a finite quota, or float('inf').
limits(t) ==
  CASE t = "anonymous" -> [inf |-> FALSE, n |-> 3]
    [] t = "free" -> [inf |-> FALSE, n |-> 10]
    [] t = "pro" -> [inf |-> TRUE, n |-> 0]
    [] OTHER -> [inf |-> FALSE, n |-> 3]

Max0(x) == IF x > 0 THEN x ELSE 0

\* Mutant of below_limit: the comparison admits the request at the limit.
below_limit_inclusive(c, lim) == lim.inf \/ c <= lim.n

\* current_count < limit (the 'allowed' entry of the decision).
below_limit(c, lim) == lim.inf \/ c < lim.n

\* The decision check_usage_limits returns when the read succeeds.
usage_decision(item, t) ==
  LET c == current_count(item)
      lim == limits(t)
  IN [allowed |-> below_limit(c, lim),
      searches_used |-> c,
      searches_remaining |-> IF lim.inf THEN 0 ELSE Max0(lim.n - c),
      unlimited |-> lim.inf,
      tier |-> t,
      upgrade_needed |-> ~ below_limit(c, lim)]

\* Mutant of usage_fail_open: the except branch refuses.
usage_fail_closed(t) ==
  [allowed |-> FALSE,
   searches_used |-> 0,
   searches_remaining |-> 0,
   unlimited |-> FALSE,
   tier |-> t,
   upgrade_needed |-> TRUE]

\* The decision of the except branch of check_usage_limits ("Allow on error").
usage_fail_open(t) ==
  [allowed |-> TRUE,
   searches_used |-> 0,
   searches_remaining |-> IF t = "anonymous" THEN 3 ELSE 10,
   unlimited |-> FALSE,
   tier |-> t,
   upgrade_needed |-> FALSE]

\* check_usage_limits(user_id, tier): one get_item, which may raise.
check_usage_limits(tbl, uid, t, d, store_ok) ==
  IF store_ok THEN usage_decision(get_item(tbl, uid, d), t) ELSE usage_fail_open(t)

NoUsage ==
  [allowed |-> FALSE, searches_used |-> 0, searches_remaining |-> 0,
   unlimited |-> FALSE, tier |-> "", upgrade_needed |-> FALSE]

\* Mutant of attribute_not_exists: put_item without its ConditionExpression.
attribute_not_exists_dropped(item) == TRUE

\* ConditionExpression='attribute_not_exists(user_id)' on the item of the key.
attribute_not_exists(item) == ~ item.present

\* The Item of put_item in increment_usage.
new_item(t, ts) == [present |-> TRUE, count |-> 1, tier |-> t, timestamp |-> ts]

\* Mutant of update_item: the update sets the count to 1.
update_item_resets(item, ts) ==
  [present |-> TRUE, count |-> 1, tier |-> item.tier, timestamp |-> ts]

\* Mutant of update_item: the update adds 2.
update_item_adds_two(item, ts) ==
  IF item.present
    THEN [item EXCEPT !.count = @ + 2, !.timestamp = ts]
    ELSE [present |-> TRUE, count |-> 2, tier |-> "", timestamp |-> ts]

\* Mutant of update_item: the count is added, the timestamp is left as stored.
update_item_keeps_timestamp(item, ts) ==
  IF item.present
    THEN [item EXCEPT !.count = @ + 1]
    ELSE [present |-> TRUE, count |-> 1, tier |-> "", timestamp |-> ts]

\* UpdateExpression 'ADD #count :inc SET #timestamp = :timestamp' (an upsert).
update_item(item, ts) ==
  IF item.present
    THEN [item EXCEPT !.count = @ + 1, !.timestamp = ts]
    ELSE [present |-> TRUE, count |-> 1, tier |-> "", timestamp |-> ts]

\* The table with the item of key (uid, d) replaced.
WithItem(tbl, uid, d, item) == [tbl EXCEPT ![uid][d] = item]

\* The tier of each identity of the model (the tier its requests resolve to).
TierOfUser(uid) ==
  CASE uid = "u_free" -> "free"
    [] uid = "u_pro" -> "pro"
    [] OTHER -> "anonymous"

\* ------------------------------------------- the bucket and the index cache
\* A record of metadata.json; its 'score' entry is absent (den = 0) until a
\* search result sets it.
NoScore == [num |-> 0, den |-> 0]
Rec(name) == [repository |-> name, score |-> NoScore]

\* What the bucket holds for an org: the vectors of faiss_index.bin (of one
\* dimension here) and the records of metadata.json. The builder uploads the
\* two objects one after the other, so a reader may find the index of one
\* build next to the metadata of another.
StoredConsistent == [index |-> <<0, 3>>, metadata |-> <<Rec("r1"), Rec("r2")>>]
StoredMoreVectors == [index |-> <<0, 3, 5>>, metadata |-> <<Rec("r1"), Rec("r2")>>]
StoredFewerVectors == [index |-> <<3>>, metadata |-> <<Rec("r1"), Rec("r2")>>]
Stored == {StoredConsistent, StoredMoreVectors, StoredFewerVectors}

\* An entry of index_cache or metadata_cache: absent, or the cached value.
NoEntry == [present |-> FALSE, v |-> << >>]
Entry(v) == [present |-> TRUE, v |-> v]

\* The query vectors tried.
Queries == {0, 2, 4}

\* Threads of one serving process calling load_index_for_org directly.
Loaders == {"t1", "t2"}
NoLoadReturn == [status |-> "none", index |-> << >>, metadata |-> << >>]
IdleLoader ==
  [pc |-> "idle", org |-> "", index |-> << >>, metadata |-> << >>,
   missed |-> FALSE, fetched |-> FALSE, after_ok |-> FALSE, after_failed |-> FALSE,
   raced |-> FALSE, ret |-> NoLoadReturn]
NoSearch == [org |-> "", q |-> 0, k |-> 0, raised |-> FALSE, results |-> << >>]
NoLoads == [started |-> 0, ok |-> 0, failed |-> 0, keyerror |-> 0, fetches |-> 0]

\* ----------------------------------------------------------- search_faiss
\* The distance index.search reports for a position it has no neighbour for
\* (the largest float32; any value above every real distance of the model).
FLT_MAX == 999

\* IndexFlatL2: the squared L2 distance of a stored vector to the query.
Dist(v, q) == (v - q) * (v - q)

\* index.search(query, k): k (position, distance) pairs by increasing
\* distance, positions counted from 0; when the index has fewer than k
\* vectors the rest is filled with position -1.
RECURSIVE Nearest(_, _, _, _)
Nearest(index, q, k, taken) ==
  IF k <= 0 THEN << >>
  ELSE LET rest == (1 .. Len(index)) \ taken
       IN IF rest = {}
            THEN <<[idx |-> -1, d |-> FLT_MAX]>> \o Nearest(index, q, k - 1, taken)
            ELSE LET best == CHOOSE i \in rest : \A j \in rest :
                               \/ Dist(index[i], q) < Dist(index[j], q)
                               \/ Dist(index[i], q) = Dist(index[j], q) /\ i <= j
                 IN <<[idx |-> best - 1, d |-> Dist(index[best], q)]>>
                      \o Nearest(index, q, k - 1, taken \cup {best})

index_search(index, q, k) == Nearest(index, q, k, {})

\* float(distances[0][i]) as a fraction.
ScoreOf(d) == [num |-> d, den |-> 1]

\* The position (from 0) a Python list of length n reads for subscript idx;
\* a position outside 0 .. n-1 is an IndexError.
PyIndex(n, idx) == IF idx >= 0 THEN idx ELSE n + idx

\* 'if idx < len(metadata)'
in_bounds(idx, n) == idx < n

\* The loop of search_faiss over the pairs of index.search, from pair i on.
RECURSIVE Collect(_, _, _)
Collect(hits, metadata, i) ==
  IF i > Len(hits) THEN << >>
  ELSE LET h == hits[i]
           n == Len(metadata)
           pos == PyIndex(n, h.idx)
       IN IF in_bounds(h.idx, n) /\ pos \in 0 .. n - 1
            THEN <<[metadata[pos + 1] EXCEPT !.score = ScoreOf(h.d)]>>
                   \o Collect(hits, metadata, i + 1)
            ELSE Collect(hits, metadata, i + 1)

\* Mutant of search_faiss: the score is set on the cached record, not on a copy.
search_faiss_no_copy(index, metadata, q, k) ==
  LET hits == index_search(index, q, k)
      n == Len(metadata)
      at(j) == {i \in 1 .. Len(hits) :
                  in_bounds(hits[i].idx, n) /\ PyIndex(n, hits[i].idx) = j - 1}
  IN [raised |-> FALSE,
      results |-> Collect(hits, metadata, 1),
      metadata |-> [j \in 1 .. n |->
         IF at(j) = {} THEN metadata[j]
         ELSE [metadata[j] EXCEPT !.score = ScoreOf(hits[CHOOSE i \in at(j) : TRUE].d)]]]

\* search_faiss(index, metadata, query_embedding, k): whether it raised, the
\* results it returned and the metadata list as the call left it.
search_faiss(index, metadata, q, k) ==
  LET hits == index_search(index, q, k)
      n == Len(metadata)
      bad == \E i \in 1 .. Len(hits) :
               in_bounds(hits[i].idx, n) /\ PyIndex(n, hits[i].idx) \notin 0 .. n - 1
  IN [raised |-> bad,
      results |-> IF bad THEN << >> ELSE Collect(hits, metadata, 1),
      metadata |-> metadata]

\* ------------------------------------------------------------------ state
VARIABLES
  now,            \* the wall clock (datetime.now())
  table,          \* the usage table: user_id -> date -> item
  index_cache,    \* org -> index (global index_cache)
  metadata_cache, \* org -> metadata (global metadata_cache)
  pc,             \* position of each execution of lambda_handler
  event,          \* its event
  user_id,        \* its locals
  tier,
  usage_info,
  inc_today,      \* today / timestamp of its increment_usage call
  inc_timestamp,
  loaded,         \* the org whose (index, metadata) its load fetched
  response,       \* what it returned
  caller,         \* each direct caller of check_usage_limits / increment_usage
  subject,        \* the identity the direct callers pass
  last,           \* history: what the last direct call returned
  count0,         \* history: the stored count of each identity at the start
  incs,           \* history: increment_usage calls per key that ended without
                  \* a store error
  steps,          \* history: the pipeline steps of each execution, in order
  inc_wrote,      \* history: its increment_usage call wrote the table
  failed_at,      \* history: the step whose failure ended it
  store_errs,     \* history: the usage-table calls of it that raised
  storage,        \* the bucket: org -> the stored index and metadata
  loader,         \* each direct caller of load_index_for_org
  found,          \* history: the last search_faiss call and what it returned
  loads,          \* history: load_index_for_org calls per org, and how they ended
  results,        \* lambda_handler's local: what search_faiss returned
  prompt,         \* the records generate_response listed in its prompt
  backend,        \* history: the model invocations of each execution
  gen,            \* a call of the offline generate_embedding
  ckpt,           \* the checkpoint object of the bucket
  run,            \* a run of build_faiss_index_resumable
  reader,         \* a serving process downloading what the builder publishes
  progress,       \* history: the runs of the builder
  peer            \* history: the identity another serving process gives the request

vars ==
  <<now, table, index_cache, metadata_cache, pc, event, user_id, tier,
    usage_info, inc_today, inc_timestamp, loaded, response, caller, subject, last,
    count0, incs, steps, inc_wrote, failed_at, store_errs, storage, loader,
    found, loads, results, prompt, backend, peer, gen, ckpt, run, reader,
    progress>>

\* The offline builders and the reader of what they publish.
offline_vars == <<gen, ckpt, run, reader, progress>>

\* The bucket and the direct callers of load_index_for_org and search_faiss.
cache_driver_vars == <<storage, loader, found, loads>>

\* What the steps from the embedding on add to an execution of lambda_handler.
pipeline_vars == <<results, prompt, backend>>

handler_vars ==
  <<index_cache, metadata_cache, pc, event, user_id, tier, usage_info,
    inc_today, inc_timestamp, loaded, response, steps, inc_wrote,
    failed_at, store_errs, cache_driver_vars, pipeline_vars, peer,
    offline_vars>>

\* generate_embedding before it is called.
NoGen ==
  [pc |-> "idle", text |-> "", retries |-> 0, attempt |-> 0, calls |-> 0,
   submitted |-> 0, errors |-> << >>, waits |-> << >>, ret |-> "none"]

\* The key {org}/checkpoint.json when it does not exist.
NoCheckpoint ==
  [present |-> FALSE, processed |-> 0, total |-> 0, embeddings |-> << >>,
   metadata |-> << >>]

\* build_faiss_index_resumable before it is called.
IdleRun ==
  [kind |-> "none", pc |-> "idle", total |-> 0, batch_size |-> 0,
   start_idx |-> 0, end_idx |-> 0, idx |-> 0, embeddings |-> << >>,
   metadata |-> << >>, ret |-> "none"]

\* A serving process before its cache-miss load.
IdleReader ==
  [pc |-> "idle", index |-> << >>, metadata |-> << >>, index_build |-> 0,
   metadata_build |-> 0]

\* History of the builder's runs.
NoProgress ==
  [runs |-> 0, total |-> 0, batch_size |-> 0, stored_before |-> 0,
   read_failed |-> FALSE, uploads |-> 0, crashes |-> 0, index_build |-> 0,
   metadata_build |-> 0]

NoResponse ==
  [statusCode |-> 0, error |-> "", usage |-> NoUsage, upgrade_url |-> "",
   org |-> "", body_keys |-> {}, results |-> << >>]

\* The invoke_model calls of an execution and the length of the text it
\* submitted to the embedding model.
NoCalls == [embed |-> 0, synth |-> 0, submitted |-> 0]
NoPeer == [resolved |-> FALSE, user_id |-> "", tier |-> ""]

NoEvent ==
  [shape |-> "direct", query |-> Missing, p_query |-> Missing, org |-> Missing,
   qs_apikey |-> NoKey,
   h_xapikey |-> NoKey, h_auth |-> NoKey, b_apikey |-> NoKey,
   qs_marketplace |-> FALSE, b_marketplace |-> FALSE, h_cookie |-> NoKey,
   qs_email |-> NoKey, sourceIp |-> "ip1", userAgent |-> "ua1"]

IdleCaller == [pc |-> "idle", user_id |-> "", tier |-> "", today |-> 0, timestamp |-> 0]

NoReturn ==
  [op |-> "none", user_id |-> "", ret |-> NoUsage, store_ok |-> TRUE,
   seen |-> 0, outcome |-> "none", overlap |-> 0]

\* The stored counts a behaviour may start from: none, or one below the
\* identity's quota.
InitCounts(uid) ==
  LET lim == limits(TierOfUser(uid))
  IN IF lim.inf THEN {0} ELSE {0, lim.n - 1}

InitItem(uid, c) ==
  IF c = 0 THEN NoItem
  ELSE [present |-> TRUE, count |-> c, tier |-> TierOfUser(uid), timestamp |-> 0]

InitCommon ==
  /\ now = 0
  /\ count0 \in [UserIds -> UNION {InitCounts(uid) : uid \in UserIds}]
  /\ \A uid \in UserIds : count0[uid] \in InitCounts(uid)
  /\ table =
       [uid \in UserIds |->
         [d \in Dates |-> IF d = 0 THEN InitItem(uid, count0[uid]) ELSE NoItem]]
  /\ index_cache = [o \in Orgs |-> NoEntry]
  /\ metadata_cache = [o \in Orgs |-> NoEntry]
  /\ loader = [t \in Loaders |-> IdleLoader]
  /\ found = NoSearch
  /\ loads = [o \in Orgs |-> NoLoads]
  /\ results = [p \in Procs |-> << >>]
  /\ prompt = [p \in Procs |-> << >>]
  /\ backend = [p \in Procs |-> NoCalls]
  /\ peer = [p \in Procs |-> NoPeer]
  /\ gen = NoGen
  /\ ckpt = NoCheckpoint
  /\ run = IdleRun
  /\ reader = IdleReader
  /\ progress = NoProgress
  /\ pc = [p \in Procs |-> "idle"]
  /\ event = [p \in Procs |-> NoEvent]
  /\ user_id = [p \in Procs |-> ""]
  /\ tier = [p \in Procs |-> ""]
  /\ usage_info = [p \in Procs |-> NoUsage]
  /\ inc_today = [p \in Procs |-> 0]
  /\ inc_timestamp = [p \in Procs |-> 0]
  /\ loaded = [p \in Procs |-> Missing]
  /\ response = [p \in Procs |-> NoResponse]
  /\ caller = [c \in Callers |-> IdleCaller]
  /\ incs = [uid \in UserIds |-> [d \in Dates |-> 0]]
  /\ last = NoReturn
  /\ steps = [p \in Procs |-> << >>]
  /\ inc_wrote = [p \in Procs |-> FALSE]
  /\ failed_at = [p \in Procs |-> ""]
  /\ store_errs = [p \in Procs |-> {}]

Init ==
  /\ InitCommon
  /\ subject = "ip1_h"
  /\ storage = [o \in Orgs |-> StoredConsistent]

InitLimiter ==
  /\ InitCommon
  /\ subject \in UserIds
  /\ storage = [o \in Orgs |-> StoredConsistent]

\* The clock advances.
Tick ==
  /\ now < MaxNow
  /\ now' = now + 1
  /\ UNCHANGED <<table, caller, subject, last, count0, incs, handler_vars>>

\* ------------------------------------ the limiter's operations, called directly
\* The stored count up to which the model starts direct increment_usage
\* calls: one past a finite quota.
CountCap(uid) ==
  LET lim == limits(TierOfUser(uid))
  IN IF lim.inf THEN MaxProCount ELSE lim.n + 1

\* The callers that are inside increment_usage for key (uid, d).
InFlight(uid, d) ==
  {c \in Callers : caller[c].pc = "incAdd" /\ caller[c].user_id = uid /\ caller[c].today = d}

\* Mutant of LimCheck: the check also stamps the day's record.
LimCheck_stamping(c) ==
  /\ caller[c].pc = "idle"
  /\ \E store_ok \in BOOLEAN :
       LET uid == subject
           d == DateOf(now)
           t == TierOfUser(uid)
       IN /\ last' = [NoReturn EXCEPT !.op = "check", !.user_id = uid,
                        !.ret = check_usage_limits(table, uid, t, d, store_ok),
                        !.store_ok = store_ok, !.seen = incs[uid][d]]
          /\ table' = WithItem(table, uid, d, update_item(get_item(table, uid, d), now))
  /\ UNCHANGED <<now, caller, subject, count0, incs, handler_vars>>

\* check_usage_limits(subject, tier) by caller c: one read, then the decision.
LimCheck(c) ==
  /\ caller[c].pc = "idle"
  /\ \E store_ok \in BOOLEAN :
       LET uid == subject
           d == DateOf(now)
           t == TierOfUser(uid)
       IN last' = [NoReturn EXCEPT !.op = "check", !.user_id = uid,
                     !.ret = check_usage_limits(table, uid, t, d, store_ok),
                     !.store_ok = store_ok, !.seen = incs[uid][d]]
  /\ UNCHANGED <<now, table, caller, subject, count0, incs, handler_vars>>

\* increment_usage(subject, tier) by caller c, up to the answer of its
\* put_item: the item is created, or the condition fails, or the store raises
\* (caught by 'except Exception' and printed).
LimIncPut(c) ==
  /\ caller[c].pc = "idle"
  /\ LET uid == subject
         d == DateOf(now)
         t == TierOfUser(uid)
         item == get_item(table, uid, d)
         ret == [NoReturn EXCEPT !.op = "increment", !.user_id = uid,
                   !.overlap = Cardinality(InFlight(uid, d))]
     IN /\ current_count(item) + Cardinality(InFlight(uid, d)) < CountCap(uid)
        /\ \/ /\ attribute_not_exists(item)
              /\ table' = WithItem(table, uid, d, new_item(t, now))
              /\ incs' = [incs EXCEPT ![uid][d] = @ + 1]
              /\ last' = [ret EXCEPT !.outcome = "created"]
              /\ UNCHANGED caller
           \/ /\ ~ attribute_not_exists(item)
              /\ caller' = [caller EXCEPT ![c] =
                   [pc |-> "incAdd", user_id |-> uid, tier |-> t, today |-> d,
                    timestamp |-> now]]
              /\ UNCHANGED <<table, incs, last>>
           \/ /\ last' = [ret EXCEPT !.outcome = "swallowed"]
              /\ UNCHANGED <<table, incs, caller>>
  /\ UNCHANGED <<now, subject, count0, handler_vars>>

\* The update_item of the ConditionalCheckFailedException branch; when it
\* raises, the exception leaves increment_usage.
LimIncAdd(c) ==
  /\ caller[c].pc = "incAdd"
  /\ LET uid == caller[c].user_id
         d == caller[c].today
         item == get_item(table, uid, d)
         ret == [NoReturn EXCEPT !.op = "increment", !.user_id = uid,
                   !.overlap = Cardinality(InFlight(uid, d) \ {c})]
     IN \/ /\ table' = WithItem(table, uid, d, update_item(item, caller[c].timestamp))
           /\ incs' = [incs EXCEPT ![uid][d] = @ + 1]
           /\ last' = [ret EXCEPT !.outcome = "added"]
        \/ /\ last' = [ret EXCEPT !.outcome = "raised"]
           /\ UNCHANGED <<table, incs>>
  /\ caller' = [caller EXCEPT ![c] = IdleCaller]
  /\ UNCHANGED <<now, subject, count0, handler_vars>>

NextLimiter ==
  \/ Tick
  \/ \E c \in Callers : LimCheck(c) \/ LimIncPut(c) \/ LimIncAdd(c)

SpecLimiter == InitLimiter /\ [][NextLimiter]_vars

\* ------------------------------------------------ lambda_handler, step by step
\* The events the model hands to lambda_handler: an API-Gateway style event
\* whose 'body' is a JSON object ("json"), is null ("null") or does not parse
\* ("bad"), or a direct invocation without 'body' ("direct").
GoodEvent == [NoEvent EXCEPT !.shape = "json", !.query = "q"]

\* An action-group invocation by the agent: no 'body', the query in a list of
\* {name, value} pairs.
AgentEvent == [NoEvent EXCEPT !.shape = "agent", !.p_query = "q"]

Events ==
  { GoodEvent,
    [GoodEvent EXCEPT !.org = "other-org"],
    [GoodEvent EXCEPT !.qs_apikey = "key_free"],
    [GoodEvent EXCEPT !.h_xapikey = "key_pro"],
    [GoodEvent EXCEPT !.b_apikey = "key_bad"],
    [GoodEvent EXCEPT !.query = ""],
    [GoodEvent EXCEPT !.query = Missing, !.qs_apikey = "key_free"],
    [NoEvent EXCEPT !.query = "q"],
    NoEvent,
    [NoEvent EXCEPT !.shape = "null"],
    [NoEvent EXCEPT !.shape = "bad"],
    [GoodEvent EXCEPT !.query = "q_long"],
    AgentEvent,
    [AgentEvent EXCEPT !.p_query = Missing] }

\* Lines 318-321 succeed: body is a mapping ('body' absent, or a JSON object).
body_parses(e) == e.shape \in {"direct", "json", "agent"}

\* body.get('query', ''): the top-level 'query' of the body, which for an event
\* without 'body' is the event itself; the pairs of 'parameters' are not read.
query_of(e) == IF e.shape = "agent" THEN Missing ELSE e.query

\* body.get('k', 5); the events of the model carry no 'k'.
DefaultK == 5
k_of(e) == DefaultK

\* len(text) of the query texts of the model.
MaxEmbedChars == 8000
TextLen(text) == IF text = "q_long" THEN MaxEmbedChars + 1 ELSE 1

\* get_embedding: the text put in 'inputText' is the query as it came.
embed_input_len(text) == TextLen(text)

\* The truncation of the offline index builder: text[:8000].
builder_input_len(text) ==
  IF TextLen(text) < MaxEmbedChars THEN TextLen(text) ELSE MaxEmbedChars

\* The vector the embedding model answers for a text.
EmbeddingOf(text) == IF text = "q_long" THEN 4 ELSE 2

\* context[:n]
PySlice(seq, n) == SubSeq(seq, 1, IF Len(seq) < n THEN Len(seq) ELSE n)

PromptRecords == 5

\* Mutant of context_text: every record of the context is listed.
context_text_unsliced(context, n) ==
  [i \in 1 .. Len(context) |-> [rank |-> i, repository |-> context[i].repository]]

\* The records listed in the prompt of generate_response, in the order of the
\* text: enumerate(context[:n]).
context_text(context, n) ==
  [i \in 1 .. Len(PySlice(context, n)) |->
     [rank |-> i, repository |-> PySlice(context, n)[i].repository]]

\* The keys of the JSON body of each response.
BodyKeys(status) ==
  CASE status = 200 -> {"answer", "results", "usage", "org", "total_time"}
    [] status = 429 -> {"error", "message", "usage", "upgrade_url"}
    [] OTHER -> {"error"}

\* Mutant of query_missing: only an absent field counts, '' passes.
query_missing_absent_only(q) == q = Missing

\* 'if not query' on body.get('query', '').
query_missing(q) == q \in {Missing, ""}

\* body.get('org', 'aws-samples')
org_of(e) == IF e.org = Missing THEN "aws-samples" ELSE e.org

\* Mutant of rejected: the handler ignores the decision.
rejected_never(ui) == FALSE

\* 'if not usage_info['allowed']'
rejected(ui) == ~ ui.allowed

\* The upgrade_url of the 429 response.
upgrade_url(t) == IF t = "anonymous" THEN "register" ELSE "solutions"

\* Lines 372-375: usage_info after the increment.
usage_after_increment(ui) ==
  IF ui.unlimited
    THEN [ui EXCEPT !.searches_used = @ + 1]
    ELSE [ui EXCEPT !.searches_used = @ + 1,
                    !.searches_remaining = Max0(@ - 1),
                    !.upgrade_needed = (Max0(ui.searches_remaining - 1) = 0)]

\* Mutant of stage_after: the usage is counted after the index is loaded.
stage_after_load_first(stage) ==
  CASE stage = "resolve" -> "check"
    [] stage = "check" -> "load"
    [] stage = "load" -> "incPut"
    [] stage = "increment" -> "embed"
    [] stage = "embed" -> "search"
    [] stage = "search" -> "synth"
    [] OTHER -> "resolve"

\* The statement order of lambda_handler: where control goes when a step
\* returns ("parse" is lines 316-332).
stage_after(stage) ==
  CASE stage = "resolve" -> "check"
    [] stage = "check" -> "incPut"
    [] stage = "increment" -> "load"
    [] stage = "load" -> "embed"
    [] stage = "embed" -> "search"
    [] stage = "search" -> "synth"
    [] OTHER -> "resolve"

\* What an execution leaves unchanged unless it says otherwise.
driver_vars ==
  <<caller, subject, last, count0, cache_driver_vars, peer, offline_vars>>
limiter_driver_vars == <<driver_vars, pipeline_vars>>

\* Mutant of Fail500: the handler gives the usage slot back when it fails.
Fail500_refund(p, stage, detail) ==
  /\ response' = [response EXCEPT ![p] =
       [NoResponse EXCEPT !.statusCode = 500, !.error = detail,
                          !.body_keys = BodyKeys(500)]]
  /\ failed_at' = [failed_at EXCEPT ![p] = stage]
  /\ pc' = [pc EXCEPT ![p] = "done"]
  /\ table' =
       IF inc_wrote[p]
         THEN [table EXCEPT ![user_id[p]][inc_today[p]].count = @ - 1]
         ELSE table

\* The 'except Exception' of lambda_handler: a 500 whose body is str(e).
Fail500(p, stage, detail) ==
  /\ response' = [response EXCEPT ![p] =
       [NoResponse EXCEPT !.statusCode = 500, !.error = detail,
                          !.body_keys = BodyKeys(500)]]
  /\ failed_at' = [failed_at EXCEPT ![p] = stage]
  /\ pc' = [pc EXCEPT ![p] = "done"]
  /\ table' = table

RECURSIVE SumOver(_, _)
SumOver(f, S) ==
  IF S = {} THEN 0
  ELSE LET x == CHOOSE y \in S : TRUE IN f[x] + SumOver(f, S \ {x})

\* The increments made so far, and the executions that may still make one.
TotalIncs == SumOver([k \in UserIds \X Dates |-> incs[k[1]][k[2]]], UserIds \X Dates)
InHandler == {q \in Procs : pc[q] \notin {"idle", "done"}}

\* lambda_handler is invoked with event e and parses it (lines 316-332).
Start(p) ==
  /\ pc[p] \in {"idle", "done"}
  /\ TotalIncs + Cardinality(InHandler) <= MaxIncrements
  /\ \E e \in Events :
       /\ event' = [event EXCEPT ![p] = e]
       /\ user_id' = [user_id EXCEPT ![p] = ""]
       /\ tier' = [tier EXCEPT ![p] = ""]
       /\ usage_info' = [usage_info EXCEPT ![p] = NoUsage]
       /\ inc_today' = [inc_today EXCEPT ![p] = 0]
       /\ inc_timestamp' = [inc_timestamp EXCEPT ![p] = 0]
       /\ loaded' = [loaded EXCEPT ![p] = Missing]
       /\ inc_wrote' = [inc_wrote EXCEPT ![p] = FALSE]
       /\ store_errs' = [store_errs EXCEPT ![p] = {}]
       /\ results' = [results EXCEPT ![p] = << >>]
       /\ prompt' = [prompt EXCEPT ![p] = << >>]
       /\ backend' = [backend EXCEPT ![p] = NoCalls]
       /\ IF ~ body_parses(e)
            THEN /\ response' = [response EXCEPT ![p] =
                      [NoResponse EXCEPT !.statusCode = 500, !.error = "parse",
                                         !.body_keys = BodyKeys(500)]]
                 /\ failed_at' = [failed_at EXCEPT ![p] = "parse"]
                 /\ pc' = [pc EXCEPT ![p] = "done"]
                 /\ steps' = [steps EXCEPT ![p] = <<"respond">>]
            ELSE IF query_missing(query_of(e))
            THEN /\ response' = [response EXCEPT ![p] =
                      [NoResponse EXCEPT !.statusCode = 400,
                                         !.error = "Query parameter required",
                                         !.body_keys = BodyKeys(400)]]
                 /\ failed_at' = [failed_at EXCEPT ![p] = ""]
                 /\ pc' = [pc EXCEPT ![p] = "done"]
                 /\ steps' = [steps EXCEPT ![p] = <<"respond">>]
            ELSE /\ response' = [response EXCEPT ![p] = NoResponse]
                 /\ failed_at' = [failed_at EXCEPT ![p] = ""]
                 /\ pc' = [pc EXCEPT ![p] = "resolve"]
                 /\ steps' = [steps EXCEPT ![p] = << >>]
  /\ UNCHANGED <<now, table, index_cache, metadata_cache, incs, driver_vars>>

\* user_id, tier, user_info = get_user_id(event); the scan of the user table
\* may raise inside get_user_from_api_key.
Resolve(p) ==
  /\ pc[p] = "resolve"
  /\ \E scan_ok \in BOOLEAN :
       LET u == get_user_id(event[p], scan_ok)
       IN /\ user_id' = [user_id EXCEPT ![p] = u.user_id]
          /\ tier' = [tier EXCEPT ![p] = u.tier]
  /\ steps' = [steps EXCEPT ![p] = Append(@, "resolve")]
  /\ pc' = [pc EXCEPT ![p] = stage_after("resolve")]
  /\ UNCHANGED <<now, table, index_cache, metadata_cache, event, usage_info,
                 inc_today, inc_timestamp, loaded, response, incs,
                 inc_wrote, failed_at, store_errs, limiter_driver_vars>>

\* usage_info = check_usage_limits(...), then the 429 branch (lines 336-366).
Check(p) ==
  /\ pc[p] = "check"
  /\ \E store_ok \in BOOLEAN :
       LET ui == check_usage_limits(table, user_id[p], tier[p], DateOf(now), store_ok)
       IN /\ usage_info' = [usage_info EXCEPT ![p] = ui]
          /\ store_errs' = [store_errs EXCEPT ![p] =
               IF store_ok THEN @ ELSE @ \cup {"get_item"}]
          /\ IF rejected(ui)
               THEN /\ response' = [response EXCEPT ![p] =
                         [NoResponse EXCEPT !.statusCode = 429,
                            !.error = "Usage limit exceeded", !.usage = ui,
                            !.upgrade_url = upgrade_url(tier[p]),
                            !.body_keys = BodyKeys(429)]]
                    /\ pc' = [pc EXCEPT ![p] = "done"]
                    /\ steps' = [steps EXCEPT ![p] = @ \o <<"check", "respond">>]
               ELSE /\ pc' = [pc EXCEPT ![p] = stage_after("check")]
                    /\ steps' = [steps EXCEPT ![p] = Append(@, "check")]
                    /\ UNCHANGED response
  /\ UNCHANGED <<now, table, index_cache, metadata_cache, event, user_id, tier,
                 inc_today, inc_timestamp, loaded, incs, inc_wrote,
                 failed_at, limiter_driver_vars>>

\* increment_usage(user_id, tier) up to the answer of put_item (lines 145-166
\* and 175-176), then lines 372-375 when the call is over.
IncPut(p) ==
  /\ pc[p] = "incPut"
  /\ LET uid == user_id[p]
         d == DateOf(now)
         item == get_item(table, uid, d)
     IN /\ inc_today' = [inc_today EXCEPT ![p] = d]
        /\ inc_timestamp' = [inc_timestamp EXCEPT ![p] = now]
        /\ steps' = [steps EXCEPT ![p] = Append(@, "increment")]
        /\ \/ /\ attribute_not_exists(item)
              /\ table' = WithItem(table, uid, d, new_item(tier[p], now))
              /\ incs' = [incs EXCEPT ![uid][d] = @ + 1]
              /\ inc_wrote' = [inc_wrote EXCEPT ![p] = TRUE]
              /\ usage_info' = [usage_info EXCEPT ![p] = usage_after_increment(@)]
              /\ pc' = [pc EXCEPT ![p] = stage_after("increment")]
              /\ UNCHANGED store_errs
           \/ /\ ~ attribute_not_exists(item)
              /\ pc' = [pc EXCEPT ![p] = "incAdd"]
              /\ UNCHANGED <<table, incs, inc_wrote, usage_info, store_errs>>
           \/ /\ store_errs' = [store_errs EXCEPT ![p] = @ \cup {"put_item"}]
              /\ usage_info' = [usage_info EXCEPT ![p] = usage_after_increment(@)]
              /\ pc' = [pc EXCEPT ![p] = stage_after("increment")]
              /\ UNCHANGED <<table, incs, inc_wrote>>
  /\ UNCHANGED <<now, index_cache, metadata_cache, event, user_id, tier, loaded,
                 response, failed_at, limiter_driver_vars>>

\* The update_item of the ConditionalCheckFailedException branch (lines
\* 167-174). An exception it raises is not caught by the sibling
\* 'except Exception' clause: it reaches lambda_handler's.
IncAdd(p) ==
  /\ pc[p] = "incAdd"
  /\ LET uid == user_id[p]
         d == inc_today[p]
         item == get_item(table, uid, d)
     IN \/ /\ table' = WithItem(table, uid, d, update_item(item, inc_timestamp[p]))
           /\ incs' = [incs EXCEPT ![uid][d] = @ + 1]
           /\ inc_wrote' = [inc_wrote EXCEPT ![p] = TRUE]
           /\ usage_info' = [usage_info EXCEPT ![p] = usage_after_increment(@)]
           /\ pc' = [pc EXCEPT ![p] = stage_after("increment")]
           /\ UNCHANGED <<response, failed_at, store_errs, steps>>
        \/ /\ store_errs' = [store_errs EXCEPT ![p] = @ \cup {"update_item"}]
           /\ Fail500(p, "increment", "update_item")
           /\ steps' = [steps EXCEPT ![p] = Append(@, "respond")]
           /\ UNCHANGED <<incs, inc_wrote, usage_info>>
  /\ UNCHANGED <<now, index_cache, metadata_cache, event, user_id, tier,
                 inc_today, inc_timestamp, loaded, limiter_driver_vars>>

\* load_index_for_org(org) up to its return on a hit, or up to the end of the
\* downloads and deserialisation on a miss (lines 178-212).
Load(p) ==
  /\ pc[p] = "load"
  /\ LET org == org_of(event[p])
     IN \/ /\ index_cache[org].present
           /\ metadata_cache[org].present
           /\ pc' = [pc EXCEPT ![p] = stage_after("load")]
           /\ steps' = [steps EXCEPT ![p] = Append(@, "load")]
           /\ UNCHANGED <<table, response, failed_at, loaded>>
        \/ /\ index_cache[org].present
           /\ ~ metadata_cache[org].present
           /\ Fail500(p, "load", "KeyError")
           /\ steps' = [steps EXCEPT ![p] = @ \o <<"load", "respond">>]
           /\ UNCHANGED loaded
        \/ /\ ~ index_cache[org].present
           /\ loaded' = [loaded EXCEPT ![p] = org]
           /\ pc' = [pc EXCEPT ![p] = "cacheIndex"]
           /\ steps' = [steps EXCEPT ![p] = Append(@, "load")]
           /\ UNCHANGED <<table, response, failed_at>>
        \/ /\ ~ index_cache[org].present
           /\ Fail500(p, "load", "download")
           /\ steps' = [steps EXCEPT ![p] = @ \o <<"load", "respond">>]
           /\ UNCHANGED loaded
  /\ UNCHANGED <<now, index_cache, metadata_cache, event, user_id, tier,
                 usage_info, inc_today, inc_timestamp, incs, inc_wrote,
                 store_errs, limiter_driver_vars>>

\* index_cache[org] = index (line 215)
CacheIndex(p) ==
  /\ pc[p] = "cacheIndex"
  /\ index_cache' = [index_cache EXCEPT ![loaded[p]] = Entry(storage[loaded[p]].index)]
  /\ pc' = [pc EXCEPT ![p] = "cacheMeta"]
  /\ UNCHANGED <<now, table, metadata_cache, event, user_id, tier, usage_info,
                 inc_today, inc_timestamp, loaded, response, incs,
                 steps, inc_wrote, failed_at, store_errs, limiter_driver_vars>>

\* metadata_cache[org] = metadata, and the return (lines 216-221)
CacheMeta(p) ==
  /\ pc[p] = "cacheMeta"
  /\ metadata_cache' =
       [metadata_cache EXCEPT ![loaded[p]] = Entry(storage[loaded[p]].metadata)]
  /\ pc' = [pc EXCEPT ![p] = stage_after("load")]
  /\ UNCHANGED <<now, table, index_cache, event, user_id, tier, usage_info,
                 inc_today, inc_timestamp, loaded, response, incs,
                 steps, inc_wrote, failed_at, store_errs, limiter_driver_vars>>

\* Mutant of Embed: a failed embedding call is replaced by a zero vector and
\* the request goes on, as the offline builders do.
Embed_zero_vector(p) ==
  /\ pc[p] = "embed"
  /\ backend' = [backend EXCEPT ![p].embed = @ + 1,
                                ![p].submitted = embed_input_len(query_of(event[p]))]
  /\ \/ /\ pc' = [pc EXCEPT ![p] = stage_after("embed")]
        /\ steps' = [steps EXCEPT ![p] = Append(@, "embed")]
        /\ UNCHANGED <<table, response, failed_at>>
     \/ /\ failed_at' = [failed_at EXCEPT ![p] = "embed"]
        /\ pc' = [pc EXCEPT ![p] = stage_after("embed")]
        /\ steps' = [steps EXCEPT ![p] = Append(@, "embed")]
        /\ UNCHANGED <<table, response>>
  /\ UNCHANGED <<now, index_cache, metadata_cache, event, user_id, tier,
                 usage_info, inc_today, inc_timestamp, loaded, incs,
                 inc_wrote, store_errs, driver_vars, results, prompt>>

\* query_embedding = get_embedding(query): one invoke_model on the query text,
\* which may raise.
Embed(p) ==
  /\ pc[p] = "embed"
  /\ backend' = [backend EXCEPT ![p].embed = @ + 1,
                                ![p].submitted = embed_input_len(query_of(event[p]))]
  /\ \/ /\ pc' = [pc EXCEPT ![p] = stage_after("embed")]
        /\ steps' = [steps EXCEPT ![p] = Append(@, "embed")]
        /\ UNCHANGED <<table, response, failed_at>>
     \/ /\ Fail500(p, "embed", "invoke_model")
        /\ steps' = [steps EXCEPT ![p] = @ \o <<"embed", "respond">>]
  /\ UNCHANGED <<now, index_cache, metadata_cache, event, user_id, tier,
                 usage_info, inc_today, inc_timestamp, loaded, incs,
                 inc_wrote, store_errs, driver_vars, results, prompt>>

\* results = search_faiss(index, metadata, query_embedding, k) on the pair that
\* load_index_for_org returned; index.search raises on a k or a vector it does
\* not accept.
Search(p) ==
  /\ pc[p] = "search"
  /\ LET org == org_of(event[p])
         out == search_faiss(index_cache[org].v, metadata_cache[org].v,
                             EmbeddingOf(query_of(event[p])), k_of(event[p]))
     IN \/ /\ ~ out.raised
           /\ results' = [results EXCEPT ![p] = out.results]
           /\ pc' = [pc EXCEPT ![p] = stage_after("search")]
           /\ steps' = [steps EXCEPT ![p] = Append(@, "search")]
           /\ UNCHANGED <<table, response, failed_at>>
        \/ /\ Fail500(p, "search", "index.search")
           /\ steps' = [steps EXCEPT ![p] = @ \o <<"search", "respond">>]
           /\ UNCHANGED results
  /\ UNCHANGED <<now, index_cache, metadata_cache, event, user_id, tier,
                 usage_info, inc_today, inc_timestamp, loaded, incs,
                 inc_wrote, store_errs, driver_vars, prompt, backend>>

\* answer = generate_response(query, results): the prompt over context[:5] and
\* one invoke_model, which may raise; then the 200 response (lines 386-405).
Synthesize(p) ==
  /\ pc[p] = "synth"
  /\ prompt' = [prompt EXCEPT ![p] = context_text(results[p], PromptRecords)]
  /\ backend' = [backend EXCEPT ![p].synth = @ + 1]
  /\ \/ /\ response' = [response EXCEPT ![p] =
             [NoResponse EXCEPT !.statusCode = 200, !.usage = usage_info[p],
                                !.org = org_of(event[p]),
                                !.body_keys = BodyKeys(200),
                                !.results = results[p]]]
        /\ pc' = [pc EXCEPT ![p] = "done"]
        /\ steps' = [steps EXCEPT ![p] = @ \o <<"synthesize", "respond">>]
        /\ UNCHANGED <<table, failed_at>>
     \/ /\ Fail500(p, "synthesize", "invoke_model")
        /\ steps' = [steps EXCEPT ![p] = @ \o <<"synthesize", "respond">>]
  /\ UNCHANGED <<now, index_cache, metadata_cache, event, user_id, tier,
                 usage_info, inc_today, inc_timestamp, loaded, incs,
                 inc_wrote, store_errs, driver_vars, results>>

\* A whole increment_usage call of another serving process, for any identity:
\* its put_item or, when the item exists, its update_item.
OtherIncrement ==
  /\ TotalIncs + Cardinality(InHandler) < MaxIncrements
  /\ \E uid \in UserIds :
       LET d == DateOf(now)
           item == get_item(table, uid, d)
       IN /\ table' = WithItem(table, uid, d,
               IF attribute_not_exists(item)
                 THEN new_item(TierOfUser(uid), now)
                 ELSE update_item(item, now))
          /\ incs' = [incs EXCEPT ![uid][d] = @ + 1]
  /\ UNCHANGED <<now, handler_vars, limiter_driver_vars>>

Next ==
  \/ OtherIncrement
  \/ \E p \in Procs :
       \/ Start(p) \/ Resolve(p) \/ Check(p) \/ IncPut(p) \/ IncAdd(p)
       \/ Load(p) \/ CacheIndex(p) \/ CacheMeta(p)
       \/ Embed(p) \/ Search(p) \/ Synthesize(p)

Spec == Init /\ [][Next]_vars

\* ------------------------------------- load_index_for_org, called directly
InitCache ==
  /\ InitCommon
  /\ subject = "ip1_h"
  /\ \A uid \in UserIds : count0[uid] = 0
  /\ storage \in [Orgs -> Stored]

\* What a direct call of load_index_for_org or search_faiss leaves unchanged.
cache_frame ==
  <<now, table, pc, event, user_id, tier, usage_info, inc_today, inc_timestamp,
    loaded, response, caller, subject, last, count0, incs, steps, inc_wrote,
    failed_at, store_errs, storage, pipeline_vars, peer, offline_vars>>

LoadsStarted == SumOver([o \in Orgs |-> loads[o].started], Orgs)

\* The threads inside a load_index_for_org(org) call that missed the cache.
Missers(org) ==
  {u \in Loaders : loader[u].org = org /\ loader[u].pc \in {"fetch", "cacheIndex", "cacheMeta"}}

\* Thread t calls load_index_for_org(org) and runs 'if org in index_cache'
\* (line 182).
LdStart(t) ==
  /\ loader[t].pc = "idle"
  /\ LoadsStarted < MaxLoads
  /\ \E org \in Orgs :
       LET miss == ~ index_cache[org].present
           racing == IF miss THEN Missers(org) \ {t} ELSE {}
       IN loader' = [u \in Loaders |->
            IF u = t
              THEN [IdleLoader EXCEPT !.pc = IF miss THEN "fetch" ELSE "hit",
                                      !.org = org,
                                      !.missed = miss,
                                      !.after_ok = (loads[org].ok > 0),
                                      !.after_failed = (loads[org].failed > 0),
                                      !.raced = (racing # {})]
            ELSE IF u \in racing THEN [loader[u] EXCEPT !.raced = TRUE]
            ELSE loader[u]]
          /\ loads' = [loads EXCEPT ![org].started = @ + 1]
  /\ UNCHANGED <<index_cache, metadata_cache, found, cache_frame>>

\* 'return index_cache[org], metadata_cache[org]' (line 184); a missing
\* metadata entry is a KeyError.
LdHit(t) ==
  /\ loader[t].pc = "hit"
  /\ LET org == loader[t].org
     IN IF metadata_cache[org].present
          THEN /\ loader' = [loader EXCEPT ![t].pc = "idle",
                    ![t].ret = [status |-> "ok", index |-> index_cache[org].v,
                                metadata |-> metadata_cache[org].v]]
               /\ loads' = [loads EXCEPT ![org].ok = @ + 1]
          ELSE /\ loader' = [loader EXCEPT ![t].pc = "idle",
                    ![t].ret = [NoLoadReturn EXCEPT !.status = "KeyError"]]
               /\ loads' = [loads EXCEPT ![org].keyerror = @ + 1]
  /\ UNCHANGED <<index_cache, metadata_cache, found, cache_frame>>

\* Mutant of LdFetch: the index is cached as soon as it is read, before the
\* metadata is loaded, so a load that fails may leave an index entry behind.
LdFetch_caches_index_early(t) ==
  /\ loader[t].pc = "fetch"
  /\ LET org == loader[t].org
     IN \/ /\ loader' = [loader EXCEPT ![t].pc = "cacheIndex", ![t].fetched = TRUE,
                ![t].index = storage[org].index,
                ![t].metadata = storage[org].metadata]
           /\ loads' = [loads EXCEPT ![org].fetches = @ + 1]
           /\ UNCHANGED index_cache
        \/ /\ loader' = [loader EXCEPT ![t].pc = "idle", ![t].fetched = TRUE,
                ![t].ret = [NoLoadReturn EXCEPT !.status = "failed"]]
           /\ loads' = [loads EXCEPT ![org].fetches = @ + 1, ![org].failed = @ + 1]
           /\ index_cache' = [index_cache EXCEPT ![org] = Entry(storage[org].index)]
  /\ UNCHANGED <<metadata_cache, found, cache_frame>>

\* The two downloads, faiss.read_index and json.load (lines 186-212): they
\* give what the bucket holds, or one of them raises.
LdFetch(t) ==
  /\ loader[t].pc = "fetch"
  /\ LET org == loader[t].org
     IN \/ /\ loader' = [loader EXCEPT ![t].pc = "cacheIndex", ![t].fetched = TRUE,
                ![t].index = storage[org].index,
                ![t].metadata = storage[org].metadata]
           /\ loads' = [loads EXCEPT ![org].fetches = @ + 1]
        \/ /\ loader' = [loader EXCEPT ![t].pc = "idle", ![t].fetched = TRUE,
                ![t].ret = [NoLoadReturn EXCEPT !.status = "failed"]]
           /\ loads' = [loads EXCEPT ![org].fetches = @ + 1, ![org].failed = @ + 1]
  /\ UNCHANGED <<index_cache, metadata_cache, found, cache_frame>>

\* Mutant of LdCacheIndex: populating an org that is already cached is an
\* error (the entry is claimed by the first writer).
LdCacheIndex_exclusive(t) ==
  /\ loader[t].pc = "cacheIndex"
  /\ IF index_cache[loader[t].org].present
       THEN /\ loader' = [loader EXCEPT ![t].pc = "idle",
                 ![t].ret = [NoLoadReturn EXCEPT !.status = "AlreadyCached"]]
            /\ UNCHANGED index_cache
       ELSE /\ index_cache' = [index_cache EXCEPT ![loader[t].org] = Entry(loader[t].index)]
            /\ loader' = [loader EXCEPT ![t].pc = "cacheMeta"]
  /\ UNCHANGED <<metadata_cache, found, loads, cache_frame>>

\* Mutant of LdCacheIndex: the cache keeps the index of one org only, as a
\* single global index would.
LdCacheIndex_single_slot(t) ==
  /\ loader[t].pc = "cacheIndex"
  /\ index_cache' = [o \in Orgs |->
       IF o = loader[t].org THEN Entry(loader[t].index) ELSE NoEntry]
  /\ loader' = [loader EXCEPT ![t].pc = "cacheMeta"]
  /\ UNCHANGED <<metadata_cache, found, loads, cache_frame>>

\* index_cache[org] = index (line 215)
LdCacheIndex(t) ==
  /\ loader[t].pc = "cacheIndex"
  /\ index_cache' = [index_cache EXCEPT ![loader[t].org] = Entry(loader[t].index)]
  /\ loader' = [loader EXCEPT ![t].pc = "cacheMeta"]
  /\ UNCHANGED <<metadata_cache, found, loads, cache_frame>>

\* metadata_cache[org] = metadata and 'return index, metadata' (lines 216-221)
LdCacheMeta(t) ==
  /\ loader[t].pc = "cacheMeta"
  /\ metadata_cache' = [metadata_cache EXCEPT ![loader[t].org] = Entry(loader[t].metadata)]
  /\ loader' = [loader EXCEPT ![t].pc = "idle",
                  ![t].ret = [status |-> "ok", index |-> loader[t].index,
                              metadata |-> loader[t].metadata]]
  /\ loads' = [loads EXCEPT ![loader[t].org].ok = @ + 1]
  /\ UNCHANGED <<index_cache, found, cache_frame>>

\* search_faiss(index, metadata, q, k) on the pair load_index_for_org returns
\* for org on a hit: the cached objects themselves.
LdSearch(org) ==
  /\ index_cache[org].present /\ metadata_cache[org].present
  /\ \E q \in Queries, k \in 1 .. MaxK :
       LET out == search_faiss(index_cache[org].v, metadata_cache[org].v, q, k)
       IN /\ found' = [org |-> org, q |-> q, k |-> k, raised |-> out.raised,
                       results |-> out.results]
          /\ metadata_cache' = [metadata_cache EXCEPT ![org].v = out.metadata]
  /\ UNCHANGED <<index_cache, loader, loads, cache_frame>>

\* load_index_for_org called by overlapping threads.
NextCache ==
  \E t \in Loaders :
    LdStart(t) \/ LdHit(t) \/ LdFetch(t) \/ LdCacheIndex(t) \/ LdCacheMeta(t)

SpecCache == InitCache /\ [][NextCache]_vars

\* One thread that loads and searches, call after call.
NextSearch ==
  \/ \E t \in {"t1"} :
       LdStart(t) \/ LdHit(t) \/ LdFetch(t) \/ LdCacheIndex(t) \/ LdCacheMeta(t)
  \/ \E org \in Orgs : LdSearch(org)

SpecSearch == InitCache /\ [][NextSearch]_vars

\* ------------------------------------------- get_user_id, called directly
\* The requests identity resolution is tried on: every combination of the
\* credentials below, in an event with a JSON 'body' or in a direct invocation.
IdEvents ==
  { [GoodEvent EXCEPT !.shape = sh, !.qs_apikey = qk, !.h_xapikey = xk,
                      !.h_auth = au, !.b_apikey = bk, !.h_cookie = ck,
                      !.qs_marketplace = mp, !.qs_email = em] :
      sh \in {"json", "direct"},
      qk \in {NoKey, "key_free", "key_bad"},
      xk \in {NoKey, "key_pro"},
      au \in {NoKey, "key_free", "sess_free"},
      bk \in {NoKey, "key_pro"},
      ck \in {NoKey, "sess_pro", "sess_bad"},
      mp \in BOOLEAN,
      em \in {NoKey, "free@x"} }

\* What a direct call of an identity function leaves unchanged.
identity_frame ==
  <<now, table, index_cache, metadata_cache, usage_info, inc_today,
    inc_timestamp, loaded, response, incs, inc_wrote, failed_at,
    limiter_driver_vars>>

\* get_user_id(event) of query_handler.py on a request e.
Identify(p) ==
  /\ pc[p] = "idle"
  /\ \E e \in IdEvents, scan_ok \in BOOLEAN :
       LET u == get_user_id(e, scan_ok)
       IN /\ event' = [event EXCEPT ![p] = e]
          /\ user_id' = [user_id EXCEPT ![p] = u.user_id]
          /\ tier' = [tier EXCEPT ![p] = u.tier]
          /\ store_errs' = [store_errs EXCEPT ![p] = IF scan_ok THEN {} ELSE {"scan"}]
  /\ steps' = [steps EXCEPT ![p] = <<"get_user_id">>]
  /\ pc' = [pc EXCEPT ![p] = "done"]
  /\ UNCHANGED identity_frame

\* get_user_id(event) of query_handler_fixed.py on a request e.
IdentifyFixed(p) ==
  /\ pc[p] = "idle"
  /\ \E e \in IdEvents, session_ok \in BOOLEAN, email_ok \in BOOLEAN,
        scan_ok \in BOOLEAN :
       LET u == get_user_id_fixed(e, session_ok, email_ok, scan_ok)
       IN /\ event' = [event EXCEPT ![p] = e]
          /\ user_id' = [user_id EXCEPT ![p] = u.user_id]
          /\ tier' = [tier EXCEPT ![p] = u.tier]
          /\ store_errs' = [store_errs EXCEPT ![p] =
               (IF scan_ok THEN {} ELSE {"scan"})
                 \cup (IF session_ok THEN {} ELSE {"session"})
                 \cup (IF email_ok THEN {} ELSE {"email"})]
  /\ steps' = [steps EXCEPT ![p] = <<"get_user_id_fixed">>]
  /\ pc' = [pc EXCEPT ![p] = "done"]
  /\ UNCHANGED identity_frame

\* A second request with the source address, User-Agent and credentials of
\* the one just resolved, handled by a serving process of its own (a Lambda
\* execution environment): get_user_id(event) there.
IdentifyElsewhere(p) ==
  /\ pc[p] = "done"
  /\ steps[p] = <<"get_user_id">>
  /\ ~ peer[p].resolved
  /\ \E seed \in HashSeeds, scan_ok \in BOOLEAN :
       LET u == get_user_id_in(seed, event[p], scan_ok)
       IN peer' = [peer EXCEPT ![p] =
                     [resolved |-> TRUE, user_id |-> u.user_id, tier |-> u.tier]]
  /\ UNCHANGED <<now, table, index_cache, metadata_cache, pc, event, user_id,
                 tier, usage_info, inc_today, inc_timestamp, loaded, response,
                 incs, steps, inc_wrote, failed_at, store_errs, caller, subject,
                 last, count0, cache_driver_vars, pipeline_vars, offline_vars>>

NextIdentity ==
  \E p \in Procs : Identify(p) \/ IdentifyFixed(p) \/ IdentifyElsewhere(p)

SpecIdentity == Init /\ [][NextIdentity]_vars

\* ------------------------------------- generate_response, called directly
MaxContext == 6

\* context[:3] of query_handler_multiorg.py
PromptRecordsMultiorg == 3

\* The result lists generate_response is tried on: up to MaxContext scored
\* records, in ranked order.
Contexts ==
  UNION { [1 .. n -> {[Rec(r) EXCEPT !.score = ScoreOf(1)] : r \in {"r1", "r2", "r3"}}] :
            n \in 0 .. MaxContext }

\* What a direct call of generate_response leaves unchanged.
prompt_frame ==
  <<now, table, index_cache, metadata_cache, event, user_id, tier, usage_info,
    inc_today, inc_timestamp, loaded, response, incs, inc_wrote, failed_at,
    store_errs, backend, driver_vars>>

\* generate_response(query, context) of query_handler.py up to its prompt.
BuildPrompt(p) ==
  /\ pc[p] = "idle"
  /\ \E context \in Contexts :
       /\ results' = [results EXCEPT ![p] = context]
       /\ prompt' = [prompt EXCEPT ![p] = context_text(context, PromptRecords)]
  /\ steps' = [steps EXCEPT ![p] = <<"generate_response">>]
  /\ pc' = [pc EXCEPT ![p] = "done"]
  /\ UNCHANGED prompt_frame

\* generate_response(query, context) of query_handler_multiorg.py up to its
\* prompt.
BuildPromptMultiorg(p) ==
  /\ pc[p] = "idle"
  /\ \E context \in Contexts :
       /\ results' = [results EXCEPT ![p] = context]
       /\ prompt' = [prompt EXCEPT ![p] = context_text(context, PromptRecordsMultiorg)]
  /\ steps' = [steps EXCEPT ![p] = <<"generate_response_multiorg">>]
  /\ pc' = [pc EXCEPT ![p] = "done"]
  /\ UNCHANGED prompt_frame

NextPrompt == \E p \in Procs : BuildPrompt(p) \/ BuildPromptMultiorg(p)

SpecPrompt == Init /\ [][NextPrompt]_vars

\* ------------------------------------------------- the offline builders
MaxDocs == 3
MaxBatch == 2
MaxRuns == 4

\* The org the builder is run for.
BuildOrg == "aws-samples"

\* The embedding of document d (documents[d], d from 0) in one dimension, and
\* the placeholder [0.0] * 1024.
DocVector(d) == 2 * d + 1
ZeroVector == 0

\* doc['metadata'] of document d.
DocRecord(d) ==
  Rec(CASE d = 0 -> "r1" [] d = 1 -> "r2" [] d = 2 -> "r3" [] d = 3 -> "r4"
        [] OTHER -> "r5")

\* index.add(np.array(embeddings)) and json.dump(metadata): what is uploaded.
IndexOf(embeddings) ==
  [i \in 1 .. Len(embeddings) |->
     IF embeddings[i].zero THEN ZeroVector ELSE DocVector(embeddings[i].doc)]
RecordsOf(metadata) == [i \in 1 .. Len(metadata) |-> DocRecord(metadata[i])]

\* min(start_idx + batch_size, total)
Min(a, b) == IF a < b THEN a ELSE b

\* Mutant of load_checkpoint: the stored lists are dropped, 'processed' kept.
load_checkpoint_lists_dropped(c, read_ok) ==
  IF c.present /\ read_ok
    THEN [c EXCEPT !.embeddings = << >>, !.metadata = << >>]
    ELSE NoCheckpoint

\* load_checkpoint(org): the stored checkpoint, or the empty one when
\* get_object raises for any reason (the key is absent, or the read fails).
load_checkpoint(c, read_ok) == IF c.present /\ read_ok THEN c ELSE NoCheckpoint

\* Everything but the builder, its checkpoint and the bucket.
builder_frame ==
  <<now, table, caller, subject, last, count0, incs, index_cache,
    metadata_cache, pc, event, user_id, tier, usage_info, inc_today,
    inc_timestamp, loaded, response, steps, inc_wrote, failed_at, store_errs,
    loader, found, loads, pipeline_vars, peer, gen, reader>>

\* build_faiss_index_resumable(org, batch_size) up to the start of its batch
\* (lines 69-91); every run is given the same documents and batch size.
RunStart ==
  /\ run.pc \in {"idle", "returned", "crashed"}
  /\ run.kind \in {"none", "resumable"}
  /\ progress.runs < MaxRuns
  /\ \E total \in 1 .. MaxDocs, batch_size \in 1 .. MaxBatch, read_ok \in BOOLEAN :
       LET checkpoint == load_checkpoint(ckpt, read_ok)
           start_idx == checkpoint.processed
       IN /\ progress.runs > 0 =>
               (total = progress.total /\ batch_size = progress.batch_size)
          /\ run' = [IdleRun EXCEPT !.kind = "resumable", !.pc = "batch",
                       !.total = total, !.batch_size = batch_size,
                       !.start_idx = start_idx,
                       !.end_idx = Min(start_idx + batch_size, total),
                       !.idx = start_idx,
                       !.embeddings = checkpoint.embeddings,
                       !.metadata = checkpoint.metadata]
          /\ progress' = [progress EXCEPT !.runs = @ + 1, !.total = total,
                            !.batch_size = batch_size,
                            !.stored_before = IF ckpt.present THEN ckpt.processed ELSE 0,
                            !.read_failed = ckpt.present /\ ~ read_ok]
  /\ UNCHANGED <<ckpt, storage, builder_frame>>

\* One pass of the batch loop (lines 93-109): the embedding of documents[idx]
\* or, when generate_embedding returned None, the zero vector.
RunDoc ==
  /\ run.kind = "resumable" /\ run.pc = "batch"
  /\ run.idx < run.end_idx
  /\ \E embedded \in BOOLEAN :
       run' = [run EXCEPT
                 !.embeddings = Append(@, [doc |-> run.idx, zero |-> ~ embedded]),
                 !.metadata = Append(@, run.idx),
                 !.idx = @ + 1]
  /\ UNCHANGED <<ckpt, progress, storage, builder_frame>>

\* save_checkpoint and the test 'end_idx >= total' (lines 111-122, 160).
RunSave ==
  /\ run.kind = "resumable" /\ run.pc = "batch"
  /\ run.idx >= run.end_idx
  /\ \/ /\ ckpt' = [present |-> TRUE, processed |-> run.end_idx, total |-> run.total,
                     embeddings |-> run.embeddings, metadata |-> run.metadata]
        /\ run' = IF run.end_idx >= run.total
                    THEN [run EXCEPT !.pc = "uploadIndex"]
                    ELSE [run EXCEPT !.pc = "returned", !.ret = "False"]
        /\ UNCHANGED progress
     \/ /\ run' = [run EXCEPT !.pc = "crashed"]
        /\ progress' = [progress EXCEPT !.crashes = @ + 1]
        /\ UNCHANGED ckpt
  /\ UNCHANGED <<storage, builder_frame>>

\* put_object of {org}/faiss_index.bin (lines 137-141).
RunUploadIndex ==
  /\ run.pc = "uploadIndex"
  /\ \/ /\ storage' = [storage EXCEPT ![BuildOrg].index = IndexOf(run.embeddings)]
        /\ run' = [run EXCEPT !.pc = "uploadMeta"]
        /\ progress' = [progress EXCEPT !.index_build = @ + 1]
     \/ /\ run' = [run EXCEPT !.pc = "crashed"]
        /\ progress' = [progress EXCEPT !.crashes = @ + 1]
        /\ UNCHANGED storage
  /\ UNCHANGED <<ckpt, builder_frame>>

\* put_object of {org}/metadata.json (lines 143-148).
RunUploadMeta ==
  /\ run.pc = "uploadMeta"
  /\ \/ /\ storage' = [storage EXCEPT ![BuildOrg].metadata = RecordsOf(run.metadata)]
        /\ run' = [run EXCEPT !.pc = "delete"]
        /\ progress' = [progress EXCEPT !.uploads = @ + 1, !.metadata_build = @ + 1]
     \/ /\ run' = [run EXCEPT !.pc = "crashed"]
        /\ progress' = [progress EXCEPT !.crashes = @ + 1]
        /\ UNCHANGED storage
  /\ UNCHANGED <<ckpt, builder_frame>>

\* delete_object of the checkpoint and 'return True' (lines 154-158).
RunDelete ==
  /\ run.pc = "delete"
  /\ \/ /\ ckpt' = NoCheckpoint
        /\ run' = [run EXCEPT !.pc = "returned", !.ret = "True"]
        /\ UNCHANGED progress
     \/ /\ run' = [run EXCEPT !.pc = "crashed"]
        /\ progress' = [progress EXCEPT !.crashes = @ + 1]
        /\ UNCHANGED ckpt
  /\ UNCHANGED <<storage, builder_frame>>

\* main of build_faiss_index.py up to generate_embeddings(texts) (lines 60-72):
\* the record list is complete before the first embedding is made.
SimpleStart ==
  /\ run.pc = "idle" /\ run.kind = "none"
  /\ \E total \in 1 .. MaxDocs :
       /\ run' = [IdleRun EXCEPT !.kind = "simple", !.pc = "batch", !.total = total,
                    !.end_idx = total,
                    !.metadata = [i \in 1 .. total |-> i - 1]]
       /\ progress' = [progress EXCEPT !.runs = @ + 1, !.total = total]
  /\ UNCHANGED <<ckpt, storage, builder_frame>>

\* One pass of the loop of generate_embeddings (lines 19-41): the embedding of
\* texts[idx] or, in the except branch, the zero vector.
SimpleDoc ==
  /\ run.kind = "simple" /\ run.pc = "batch"
  /\ run.idx < run.total
  /\ \E embedded \in BOOLEAN :
       run' = [run EXCEPT
                 !.embeddings = Append(@, [doc |-> run.idx, zero |-> ~ embedded]),
                 !.idx = @ + 1]
  /\ UNCHANGED <<ckpt, progress, storage, builder_frame>>

\* The index and the metadata are written to their files (lines 75-84).
SimpleSave ==
  /\ run.kind = "simple" /\ run.pc = "batch"
  /\ run.idx >= run.total
  /\ run' = [run EXCEPT !.pc = "returned", !.ret = "saved"]
  /\ UNCHANGED <<ckpt, progress, storage, builder_frame>>

NextBuilder ==
  \/ RunStart \/ RunDoc \/ RunSave \/ RunUploadIndex \/ RunUploadMeta \/ RunDelete
  \/ SimpleStart \/ SimpleDoc \/ SimpleSave

SpecBuilder == Init /\ [][NextBuilder]_vars

\* --------------------- a cache-miss load while the builder publishes
\* A run of build_faiss_index_resumable whose batch covers all the documents
\* that are left, from its start to the test 'end_idx >= total' (lines 69-122)
\* in one step: the checkpoint is loaded, every document left is embedded
\* (generate_embedding succeeds) and the checkpoint is saved.
BuildRun ==
  /\ run.pc \in {"idle", "returned", "crashed"}
  /\ progress.runs < MaxRuns
  /\ \E total \in 1 .. MaxDocs, read_ok \in BOOLEAN :
       LET checkpoint == load_checkpoint(ckpt, read_ok)
           start_idx == checkpoint.processed
       IN /\ progress.runs > 0 => total = progress.total
          /\ LET embeddings ==
                   checkpoint.embeddings \o
                     [i \in 1 .. total - start_idx |->
                        [doc |-> start_idx + i - 1, zero |-> FALSE]]
                 metadata ==
                   checkpoint.metadata \o
                     [i \in 1 .. total - start_idx |-> start_idx + i - 1]
             IN /\ run' = [IdleRun EXCEPT !.kind = "resumable", !.pc = "uploadIndex",
                             !.total = total, !.batch_size = total,
                             !.start_idx = start_idx, !.end_idx = total,
                             !.idx = total, !.embeddings = embeddings,
                             !.metadata = metadata]
                /\ ckpt' = [present |-> TRUE, processed |-> total, total |-> total,
                            embeddings |-> embeddings, metadata |-> metadata]
          /\ progress' = [progress EXCEPT !.runs = @ + 1, !.total = total,
                            !.batch_size = total,
                            !.stored_before = IF ckpt.present THEN ckpt.processed ELSE 0,
                            !.read_failed = ckpt.present /\ ~ read_ok]
  /\ UNCHANGED <<storage, builder_frame>>

\* Everything but the reader and the caches it fills.
reader_frame ==
  <<now, table, caller, subject, last, count0, incs, pc, event, user_id, tier,
    usage_info, inc_today, inc_timestamp, loaded, response, steps, inc_wrote,
    failed_at, store_errs, cache_driver_vars, pipeline_vars, peer, gen, ckpt,
    run, progress>>

\* load_index_for_org(org) misses the cache and downloads faiss_index.bin
\* (lines 182-199).
ReaderGetIndex ==
  /\ reader.pc = "idle"
  /\ ~ index_cache[BuildOrg].present
  /\ \/ reader' = [reader EXCEPT !.pc = "getMetadata",
                      !.index = storage[BuildOrg].index,
                      !.index_build = progress.index_build]
     \/ reader' = [reader EXCEPT !.pc = "failed"]
  /\ UNCHANGED <<index_cache, metadata_cache, reader_frame>>

\* The download of metadata.json (line 200).
ReaderGetMetadata ==
  /\ reader.pc = "getMetadata"
  /\ \/ reader' = [reader EXCEPT !.pc = "cache",
                      !.metadata = storage[BuildOrg].metadata,
                      !.metadata_build = progress.metadata_build]
     \/ reader' = [reader EXCEPT !.pc = "failed"]
  /\ UNCHANGED <<index_cache, metadata_cache, reader_frame>>

\* faiss.read_index, json.load and the two cache writes (lines 204-216).
ReaderCache ==
  /\ reader.pc = "cache"
  /\ index_cache' = [index_cache EXCEPT ![BuildOrg] = Entry(reader.index)]
  /\ metadata_cache' = [metadata_cache EXCEPT ![BuildOrg] = Entry(reader.metadata)]
  /\ reader' = [reader EXCEPT !.pc = "cached"]
  /\ UNCHANGED reader_frame

NextPublish ==
  \/ BuildRun \/ RunUploadIndex \/ RunUploadMeta \/ RunDelete
  \/ ReaderGetIndex \/ ReaderGetMetadata \/ ReaderCache

SpecPublish == Init /\ [][NextPublish]_vars

\* ------------------------- the quota gate under concurrent requests
\* Requests of the subject served at the same time, each by a process of its
\* own: lines 344-375 of lambda_handler, the check and then the increment, with
\* a counter store that answers every read.
gate_frame == <<now, subject, count0, last, handler_vars>>

\* usage_info = check_usage_limits(user_id, tier) and the 429 or the way on
\* (lines 344-366).
GateCheck(c) ==
  /\ caller[c].pc = "idle"
  /\ LET uid == subject
         d == DateOf(now)
         t == TierOfUser(uid)
         ui == check_usage_limits(table, uid, t, d, TRUE)
     IN caller' = [caller EXCEPT ![c] =
          [pc |-> IF rejected(ui) THEN "denied" ELSE "gated",
           user_id |-> uid, tier |-> t, today |-> d, timestamp |-> now]]
  /\ UNCHANGED <<table, incs, gate_frame>>

\* increment_usage(user_id, tier) up to the answer of put_item (line 369).
GateIncPut(c) ==
  /\ caller[c].pc = "gated"
  /\ LET uid == caller[c].user_id
         d == caller[c].today
         item == get_item(table, uid, d)
     IN \/ /\ attribute_not_exists(item)
           /\ table' = WithItem(table, uid, d, new_item(caller[c].tier, now))
           /\ incs' = [incs EXCEPT ![uid][d] = @ + 1]
           /\ caller' = [caller EXCEPT ![c].pc = "served"]
        \/ /\ ~ attribute_not_exists(item)
           /\ caller' = [caller EXCEPT ![c].pc = "adding"]
           /\ UNCHANGED <<table, incs>>
        \/ /\ caller' = [caller EXCEPT ![c].pc = "served"]
           /\ UNCHANGED <<table, incs>>
  /\ UNCHANGED gate_frame

\* The update_item of the ConditionalCheckFailedException branch; when it
\* raises the request ends with a 500.
GateIncAdd(c) ==
  /\ caller[c].pc = "adding"
  /\ LET uid == caller[c].user_id
         d == caller[c].today
         item == get_item(table, uid, d)
     IN \/ /\ table' = WithItem(table, uid, d, update_item(item, caller[c].timestamp))
           /\ incs' = [incs EXCEPT ![uid][d] = @ + 1]
           /\ caller' = [caller EXCEPT ![c].pc = "served"]
        \/ /\ caller' = [caller EXCEPT ![c].pc = "failed"]
           /\ UNCHANGED <<table, incs>>
  /\ UNCHANGED gate_frame

NextGate == \E c \in Callers : GateCheck(c) \/ GateIncPut(c) \/ GateIncAdd(c)

SpecGate == InitLimiter /\ [][NextGate]_vars

\* ------------------- generate_embedding of resumable_faiss_builder.py
MaxRetries == 5

\* retries=5
DefaultRetries == 5

RECURSIVE Pow2(_)
Pow2(n) == IF n = 0 THEN 1 ELSE 2 * Pow2(n - 1)

\* Mutant of wait_time: the same wait after every attempt.
wait_time_constant(attempt) == 5

\* wait_time = (2 ** attempt) * 5
wait_time(attempt) == Pow2(attempt) * 5

\* 'ThrottlingException' in str(e) or 'Too many requests' in str(e)
is_throttling(e) == e \in {"ThrottlingException", "Too many requests"}

\* What invoke_model raises.
BackendErrors == {"ThrottlingException", "Too many requests", "ValidationException"}

\* Everything but the call of generate_embedding.
retry_frame ==
  <<now, table, caller, subject, last, count0, incs, index_cache,
    metadata_cache, pc, event, user_id, tier, usage_info, inc_today,
    inc_timestamp, loaded, response, steps, inc_wrote, failed_at, store_errs,
    cache_driver_vars, pipeline_vars, peer, ckpt, run, reader, progress>>

\* generate_embedding(text, bedrock, retries) is called; with range(retries)
\* empty it returns None at once (lines 42, 63-64).
GenCall ==
  /\ gen.pc = "idle"
  /\ \E text \in {"q", "q_long"}, retries \in 0 .. MaxRetries :
       gen' = [NoGen EXCEPT !.text = text, !.retries = retries,
                 !.pc = IF retries = 0 THEN "done" ELSE "call",
                 !.ret = IF retries = 0 THEN "None" ELSE "none"]
  /\ UNCHANGED retry_frame

\* One pass of the loop body (lines 43-61): invoke_model on text[:8000], and
\* the return of the embedding, or the sleep after a throttling error (after
\* which the loop goes on or, after the last attempt, lines 63-64 return
\* None), or the return of None after any other error.
GenAttempt ==
  /\ gen.pc = "call"
  /\ LET g == [gen EXCEPT !.calls = @ + 1, !.submitted = builder_input_len(gen.text)]
     IN \/ gen' = [g EXCEPT !.pc = "done", !.ret = "embedding"]
        \/ \E e \in BackendErrors :
             IF is_throttling(e)
               THEN gen' = [g EXCEPT !.errors = Append(@, e),
                              !.waits = Append(@, wait_time(gen.attempt)),
                              !.attempt = @ + 1,
                              !.pc = IF gen.attempt + 1 < gen.retries THEN "call" ELSE "done",
                              !.ret = IF gen.attempt + 1 < gen.retries THEN "none" ELSE "None"]
               ELSE gen' = [g EXCEPT !.errors = Append(@, e), !.pc = "done",
                              !.ret = "None"]
  /\ UNCHANGED retry_frame

NextRetry == GenCall \/ GenAttempt

SpecRetry == Init /\ [][NextRetry]_vars /\ WF_vars(NextRetry)

\* ------------------------------------------------------------------ claims
\* The stored count of key (uid, d) when the behaviour started.
StartCount(uid, d) == IF d = 0 THEN count0[uid] ELSE 0

\* C1: concurrent increment_usage calls for one (identity, date) lose no
\* update: at every moment the stored count is the count the behaviour started
\* from plus the number of calls that ended without a store error, whatever
\* the interleaving of their put_item and update_item steps.
C1_NoLostUpdate ==
  \A uid \in UserIds, d \in Dates :
    current_count(table[uid][d]) = StartCount(uid, d) + incs[uid][d]

\* C1 witness: a call added to the count while two other calls for the same
\* key were between their conditional create and their atomic add.
C1_Witness ==
  /\ last.op = "increment" /\ last.outcome = "added" /\ last.overlap = 2
  /\ current_count(table[subject][0]) = count0[subject] + incs[subject][0]

C8_CheckReadOnly ==
  [][/\ (last' # last /\ last'.op = "check") => table' = table
     /\ table' # table =>
          (last'.op = "increment" /\ last'.outcome \in {"created", "added"})]_vars

\* C8 witness: a check that refused, over a stored record.
C8_Witness ==
  /\ last.op = "check" /\ last.store_ok /\ ~ last.ret.allowed
  /\ table[subject][0].present

InSeq(x, seq) == \E i \in 1 .. Len(seq) : seq[i] = x

\* C3: a request answered 200 went through the steps in this order, each
\* once, each after the one before it had returned.
C3_PipelineOrder ==
  \A p \in Procs :
    response[p].statusCode = 200 =>
      steps[p] = <<"resolve", "check", "increment", "load", "embed", "search",
                   "synthesize", "respond">>

\* C3 witness: a request answered 200 after all eight steps.
C3_Witness ==
  \E p \in Procs :
    /\ pc[p] = "done" /\ response[p].statusCode = 200 /\ Len(steps[p]) = 8
    /\ inc_wrote[p]

\* The shape of a refusal: 429, upgrade_needed, nothing remaining, an upgrade
\* URL, and no step after the check.
C4_Refused(p) ==
  (InSeq("check", steps[p]) /\ ~ usage_info[p].allowed) =>
    /\ pc[p] = "done"
    /\ response[p].statusCode = 429
    /\ response[p].usage.upgrade_needed
    /\ response[p].usage.searches_remaining = 0
    /\ ~ response[p].usage.unlimited
    /\ response[p].upgrade_url \in {"register", "solutions"}
    /\ steps[p] = <<"resolve", "check", "respond">>
    /\ ~ inc_wrote[p]
    /\ loaded[p] = Missing

\* C4: a request whose quota check returned allowed=false is answered 429 with
\* upgrade_needed=true, searches_remaining=0 and an upgrade URL, having made no
\* increment, index load, embedding, search or synthesis; the step that
\* answers 429 leaves the usage table as it was.
C4_QuotaExceeded ==
  /\ [](\A p \in Procs : C4_Refused(p))
  /\ [][\A p \in Procs :
          (response'[p].statusCode = 429 /\ pc[p] = "check") => table' = table]_vars

\* C4 witness: the anonymous identity, no record at the start, refused on the
\* request that follows three counted ones.
C4_Witness ==
  \E p \in Procs :
    /\ response[p].statusCode = 429 /\ tier[p] = "anonymous"
    /\ count0[user_id[p]] = 0
    /\ response[p].usage.searches_used = 3
    /\ current_count(table[user_id[p]][0]) = 3

C6_FailOpen ==
  \A p \in Procs :
    "get_item" \in store_errs[p] =>
      /\ response[p].statusCode # 429
      /\ InSeq("check", steps[p])
      /\ Len(steps[p]) = 2 =>
           /\ pc[p] = "incPut"
           /\ usage_info[p].allowed
           /\ usage_info[p].searches_used = 0
           /\ usage_info[p].searches_remaining = (IF tier[p] = "anonymous" THEN 3 ELSE 10)
           /\ ~ usage_info[p].upgrade_needed

\* C6 witness: the anonymous identity at its quota, let through by a failed read.
C6_Witness ==
  \E p \in Procs :
    /\ pc[p] = "incPut" /\ "get_item" \in store_errs[p] /\ tier[p] = "anonymous"
    /\ current_count(table[user_id[p]][0]) >= 3

\* C7 (the claim as stated): a request that met a usage-table failure in the
\* limiter is never ended by it; it goes on to the index load.
C7_LimiterFailureSwallowed ==
  \A p \in Procs :
    (store_errs[p] # {} /\ pc[p] = "done") =>
      /\ failed_at[p] # "increment"
      /\ InSeq("load", steps[p])

\* C9: a step that changes a usage record changes the record of one key only,
\* the key of an increment_usage call; a record that was absent is created on
\* the day of the call with count 1, an existing one has its count raised by
\* exactly 1 and its timestamp set to that of the call; the records of every
\* other identity and date stay as they were.
C9_IncrementFrame ==
  [][\A uid \in UserIds, d \in Dates :
       table'[uid][d] # table[uid][d] =>
         /\ \A u2 \in UserIds, d2 \in Dates :
              <<u2, d2>> # <<uid, d>> => table'[u2][d2] = table[u2][d2]
         /\ last'.op = "increment" /\ last'.user_id = uid
         /\ table'[uid][d].present
         /\ IF ~ table[uid][d].present
              THEN /\ table'[uid][d].count = 1
                   /\ table'[uid][d].timestamp = now
                   /\ d = DateOf(now)
              ELSE /\ table'[uid][d].count = table[uid][d].count + 1
                   /\ table'[uid][d].tier = table[uid][d].tier
                   /\ \E c \in Callers :
                        /\ caller[c].pc = "incAdd" /\ caller'[c].pc = "idle"
                        /\ caller[c].user_id = uid /\ caller[c].today = d
                        /\ table'[uid][d].timestamp = caller[c].timestamp]_vars

\* C9 witness: the subject has a record on both days, the first raised at a
\* later instant than it was created, while another identity's record is
\* still the one the behaviour started with.
C9_Witness ==
  /\ table[subject][0].present /\ table[subject][1].present
  /\ table[subject][0].count >= 2 /\ table[subject][0].timestamp > 0
  /\ \E u2 \in UserIds \ {subject} :
       count0[u2] > 0 /\ table[u2][0] = InitItem(u2, count0[u2])

\* C10: nothing gives a usage slot back. The stored count of every key is the
\* start count plus the increments made, also after a request that made its
\* increment failed at index load, embedding, search or synthesis and was
\* answered 500; a request that ended before its increment step wrote nothing.
C10_NoRefund ==
  /\ \A uid \in UserIds, d \in Dates :
       current_count(table[uid][d]) = StartCount(uid, d) + incs[uid][d]
  /\ \A p \in Procs :
       pc[p] = "done" =>
         /\ failed_at[p] \in {"load", "embed", "search", "synthesize"} =>
              /\ response[p].statusCode = 500
              /\ InSeq("increment", steps[p])
              /\ inc_wrote[p] => current_count(table[user_id[p]][inc_today[p]]) >= 1
         /\ ~ InSeq("increment", steps[p]) =>
              /\ ~ inc_wrote[p]
              /\ response[p].statusCode \in {400, 429, 500}

\* C10 witness: a request that counted itself, then failed in synthesis.
C10_Witness ==
  \E p \in Procs :
    /\ pc[p] = "done" /\ failed_at[p] = "synthesize" /\ inc_wrote[p]
    /\ response[p].statusCode = 500
    /\ current_count(table[user_id[p]][inc_today[p]]) =
         StartCount(user_id[p], inc_today[p]) + incs[user_id[p]][inc_today[p]]

\* ------------------------------------------------- claims on identity
\* The credentials of a request that prove a known account.
KnownSessions(e) == {c \in {e.h_auth, e.h_cookie} : UserOfSession(c).user_id # Missing}
KnownKeys(e) ==
  {k \in {e.qs_apikey, e.h_xapikey, e.h_auth, e.b_apikey} : UserOfKey(k).user_id # Missing}

\* An identity function was applied to the request of p and its lookups answered.
Identified(p, fns) ==
  /\ pc[p] = "done" /\ Len(steps[p]) = 1 /\ steps[p][1] \in fns
  /\ store_errs[p] = {}

\* C11 (the claim as stated): whichever get_user_id resolves the request, a
\* session of a known account wins whenever the request carries one; else an
\* api key of a known account wins, wherever it arrives; else the identity is
\* the anonymous fingerprint with tier anonymous.
C11_Precedence ==
  \A p \in Procs :
    (Identified(p, {"get_user_id", "get_user_id_fixed"}) /\ event[p].qs_email = NoKey) =>
      LET e == event[p]
      IN IF KnownSessions(e) # {}
           THEN \E c \in KnownSessions(e) : user_id[p] = UserOfSession(c).user_id
         ELSE IF KnownKeys(e) # {}
           THEN \E k \in KnownKeys(e) :
                  /\ user_id[p] = UserOfKey(k).user_id
                  /\ tier[p] = UserOfKey(k).tier
         ELSE /\ user_id[p] = Fingerprint(e.sourceIp, e.userAgent)
              /\ tier[p] = "anonymous"

\* C12 (the claim as stated): a request with an api key of a known account in
\* any of the four locations is resolved by get_user_id to the identity and
\* tier of such a key's account, whatever the other locations hold.
C12_AnyLocation ==
  \A p \in Procs :
    (Identified(p, {"get_user_id"}) /\ KnownKeys(event[p]) # {}) =>
      \E k \in KnownKeys(event[p]) :
        /\ user_id[p] = UserOfKey(k).user_id
        /\ tier[p] = UserOfKey(k).tier

\* ------------------------------------------- claims on the index cache
\* Thread t has returned from a load_index_for_org call.
Returned(t) == loader[t].pc = "idle" /\ loader[t].ret.status # "none"

\* C13: a load_index_for_org(org) call that starts after one for org has
\* succeeded in the process makes no fetch and returns the pair the cache
\* holds; from that success on no step removes or changes the entry of org,
\* whatever org the step loads.
C13_WarmPath ==
  /\ [](\A t \in Loaders :
          (Returned(t) /\ loader[t].after_ok) =>
            LET org == loader[t].org
            IN /\ loader[t].ret.status = "ok"
               /\ ~ loader[t].fetched /\ ~ loader[t].missed
               /\ index_cache[org].present /\ metadata_cache[org].present
               /\ loader[t].ret.index = index_cache[org].v
               /\ loader[t].ret.metadata = metadata_cache[org].v)
  /\ [][\A o \in Orgs :
          loads[o].ok > 0 =>
            /\ index_cache'[o] = index_cache[o]
            /\ metadata_cache'[o] = metadata_cache[o]]_vars

\* C13 witness: a third call hits the entry of its org after the other org
\* was loaded as well.
C13_Witness ==
  \E t \in Loaders :
    /\ Returned(t) /\ loader[t].after_ok /\ loader[t].ret.status = "ok"
    /\ \E o \in Orgs \ {loader[t].org} : loads[o].ok > 0

\* C14 (the claim as stated): every pair load_index_for_org returns, and
\* every complete entry of the cache, has as many vectors as records; a miss
\* that fetches an index and a record array of different counts fails and
\* caches nothing.
C14_CountsAgree ==
  /\ \A t \in Loaders :
       (Returned(t) /\ loader[t].ret.status = "ok") =>
         Len(loader[t].ret.index) = Len(loader[t].ret.metadata)
  /\ \A o \in Orgs :
       (index_cache[o].present /\ metadata_cache[o].present) =>
         Len(index_cache[o].v) = Len(metadata_cache[o].v)
  /\ \A o \in Orgs :
       Len(storage[o].index) # Len(storage[o].metadata) =>
         ~ index_cache[o].present /\ ~ metadata_cache[o].present

\* C15: the step in which a load_index_for_org call fails in its downloads
\* or deserialisation leaves both caches as they were, for every org, after
\* one fetch attempt; while every fetch for an org has failed the caches hold
\* nothing for it, and a call that finds no index entry fetches, also after
\* an earlier failure.
C15_FailedLoad ==
  /\ [](\A o \in Orgs :
          loads[o].fetches = loads[o].failed =>
            ~ index_cache[o].present /\ ~ metadata_cache[o].present)
  /\ [](\A t \in Loaders :
          (Returned(t) /\ loader[t].missed) => loader[t].fetched)
  /\ [](\A t \in Loaders :
          (Returned(t) /\ loader[t].after_failed /\ ~ index_cache[loader[t].org].present)
            => loader[t].missed /\ loader[t].ret.status = "failed")
  /\ [][\A t \in Loaders :
          (loader[t].pc = "fetch" /\ loader'[t].ret.status = "failed") =>
            /\ index_cache' = index_cache
            /\ metadata_cache' = metadata_cache
            /\ loads'[loader[t].org].fetches = loads[loader[t].org].fetches + 1]_vars

\* C15 witness: after a failed load of an org, a later call for the org
\* fetched again and succeeded.
C15_Witness ==
  \E t \in Loaders :
    /\ Returned(t) /\ loader[t].after_failed /\ loader[t].missed
    /\ loader[t].fetched /\ loader[t].ret.status = "ok"
    /\ loads[loader[t].org].fetches = 2

\* C16: a load_index_for_org call that missed the cache while another call
\* for the same org was loading it, and whose downloads succeeded, returns
\* without error, and from its return on the cache holds a complete entry for
\* the org whose index and records are those the call produced.
C16_RedundantLoad ==
  \A t \in Loaders :
    (Returned(t) /\ loader[t].raced /\ loader[t].ret.status # "failed") =>
      LET org == loader[t].org
      IN /\ loader[t].ret.status = "ok"
         /\ loader[t].missed /\ loader[t].fetched
         /\ index_cache[org].present /\ metadata_cache[org].present
         /\ index_cache[org].v = loader[t].ret.index
         /\ metadata_cache[org].v = loader[t].ret.metadata

\* C16 witness: both threads missed for one org, loaded it and returned.
C16_Witness ==
  /\ \A t \in Loaders : Returned(t) /\ loader[t].raced /\ loader[t].ret.status = "ok"
  /\ loader["t1"].org = loader["t2"].org

\* C17 (the claim as stated): a load_index_for_org call that overlaps the
\* population of the cache by another call returns a complete pair, from the
\* cache or from its own load; it fails only when its own downloads fail,
\* never on an index entry whose records entry is not there yet (KeyError).
C17_ConcurrentReads ==
  \A t \in Loaders :
    Returned(t) =>
      /\ loader[t].ret.status \in {"ok", "failed"}
      /\ loader[t].ret.status = "failed" => loader[t].fetched

\* ------------------------------------------------- claims on search_faiss
\* A search_faiss call has returned.
Searched == found.org # "" /\ ~ found.raised

\* The pairs index.search gave the last search_faiss call.
FoundHits == index_search(index_cache[found.org].v, found.q, found.k)

\* C18 (the claim as stated): search_faiss returns at most k results, the
\* score of each is 1/(1+d) for the raw distance d of one of the neighbours
\* found, so in (0,1], and the scores do not increase along the list.
C18_RankedScores ==
  Searched =>
    /\ Len(found.results) <= found.k
    /\ \A i \in 1 .. Len(found.results) :
         LET sc == found.results[i].score
         IN /\ sc.den > 0 /\ 0 < sc.num /\ sc.num <= sc.den
            /\ \E j \in 1 .. Len(FoundHits) : sc.num * (1 + FoundHits[j].d) = sc.den
    /\ \A i \in 1 .. Len(found.results) - 1 :
         found.results[i].score.num * found.results[i + 1].score.den
           >= found.results[i + 1].score.num * found.results[i].score.den

\* The neighbours of the last search whose position is one of the record array.
ValidHits ==
  {j \in 1 .. Len(FoundHits) :
     FoundHits[j].idx \in 0 .. Len(metadata_cache[found.org].v) - 1}

\* C19 (the claim as stated): search_faiss emits one result per neighbour
\* whose position is in 0 .. len(metadata)-1 and none for any other position,
\* the 'no neighbour' position -1 included; every result is the record at
\* the position of such a neighbour.
C19_SkipsOutOfBounds ==
  Searched =>
    /\ Len(found.results) = Cardinality(ValidHits)
    /\ \A i \in 1 .. Len(found.results) :
         \E j \in ValidHits :
           found.results[i].repository
             = metadata_cache[found.org].v[FoundHits[j].idx + 1].repository

\* C20: search_faiss changes nothing it is given: the step of a search leaves
\* index_cache and metadata_cache as they were, and after any number of
\* searches the cached index and records are those fetched from the bucket,
\* no cached record having a score.
C20_SearchPure ==
  /\ [](\A o \in Orgs :
          /\ index_cache[o].present => index_cache[o].v = storage[o].index
          /\ metadata_cache[o].present =>
               /\ metadata_cache[o].v = storage[o].metadata
               /\ \A i \in 1 .. Len(metadata_cache[o].v) :
                    metadata_cache[o].v[i].score = NoScore)
  /\ [][found' # found =>
          /\ index_cache' = index_cache
          /\ metadata_cache' = metadata_cache]_vars

\* C20 witness: a search returned two or more scored results while both
\* orgs are cached.
C20_Witness ==
  /\ Searched
  /\ Len(found.results) >= 2
  /\ \A i \in 1 .. Len(found.results) : found.results[i].score.den = 1
  /\ \A o \in Orgs : metadata_cache[o].present

\* C21 (the claim as stated): the body of every 200 response has the answer
\* text and a list named 'repositories' of at most k records, each carrying a
\* 'similarity_score' in (0,1].
C21_RepositoriesList ==
  \A p \in Procs :
    response[p].statusCode = 200 =>
      /\ {"answer", "repositories"} \subseteq response[p].body_keys
      /\ Len(response[p].results) <= k_of(event[p])
      /\ \A i \in 1 .. Len(response[p].results) :
           "similarity_score" \in DOMAIN response[p].results[i]

\* C22 (the claim as stated): an agent-style request is answered with the
\* client error exactly when its parameter list has no pair named 'query' with
\* a non-empty value; with such a pair it goes through the pipeline (identity,
\* limiter, load, embed, search, synthesis) as a direct request does.
C22_AgentQuery ==
  \A p \in Procs :
    (pc[p] = "done" /\ event[p].shape = "agent") =>
      /\ (response[p].statusCode = 400) <=> (event[p].p_query = Missing)
      /\ event[p].p_query # Missing => Len(steps[p]) >= 2

\* C23 (the claim as stated): every finished invocation has one response
\* whose status is 200, 400, 429 or 500, and the body of a 500 is an opaque
\* message that does not carry the text of the exception that was raised.
C23_Opaque500 ==
  \A p \in Procs :
    pc[p] = "done" =>
      /\ response[p].statusCode \in {200, 400, 429, 500}
      /\ response[p].statusCode = 500 =>
           /\ failed_at[p] # ""
           /\ response[p].error
                \notin {"parse", "download", "KeyError", "invoke_model",
                        "index.search", "update_item"}

\* C24 (the claim as stated): the text a request submits to the embedding
\* backend is never longer than 8000 characters, and is the query cut as the
\* offline index builder cuts its documents.
C24_TruncatedInput ==
  \A p \in Procs :
    backend[p].embed > 0 =>
      /\ backend[p].submitted <= MaxEmbedChars
      /\ backend[p].submitted = builder_input_len(query_of(event[p]))

\* C25: a request makes at most one embedding call and at most one synthesis
\* call; when the embedding call fails the request ends there with a 500: no
\* search, no synthesis call, no result.
C25_NoRetryNoZeroVector ==
  \A p \in Procs :
    /\ backend[p].embed <= 1
    /\ backend[p].synth <= 1
    /\ failed_at[p] = "embed" =>
         /\ pc[p] = "done"
         /\ response[p].statusCode = 500
         /\ backend[p].synth = 0
         /\ results[p] = << >>
         /\ \A i \in 1 .. Len(steps[p]) : steps[p][i] \notin {"search", "synthesize"}

\* A request whose one embedding call failed.
C25_Witness ==
  \E p \in Procs :
    /\ failed_at[p] = "embed"
    /\ backend[p].embed = 1
    /\ response[p].statusCode = 500

\* C26 (the claim as stated): two requests with the same source address and
\* the same User-Agent, neither carrying a credential that resolves, get the
\* same fingerprint, whichever serving process handles each of them.
C26_FingerprintDeterministic ==
  \A p \in Procs :
    (peer[p].resolved /\ tier[p] = "anonymous" /\ peer[p].tier = "anonymous")
      => peer[p].user_id = user_id[p]

\* The number of records the handler that built the prompt lists.
PromptLimit(p) ==
  IF steps[p] = <<"generate_response_multiorg">> THEN PromptRecordsMultiorg
  ELSE PromptRecords

\* C27: the prompt lists the first N retrieved records and no other (N = 5 in
\* the main handler, 3 in the multi-org one; all of them when there are fewer
\* than N, none when there is none), in ranked order: the entry at position i
\* is the record of rank i.
C27_PromptOrder ==
  \A p \in Procs :
    (pc[p] = "done" /\ Len(steps[p]) = 1
       /\ steps[p][1] \in {"generate_response", "generate_response_multiorg"}) =>
      /\ Len(prompt[p])
           = (IF Len(results[p]) < PromptLimit(p) THEN Len(results[p])
              ELSE PromptLimit(p))
      /\ \A i \in 1 .. Len(prompt[p]) :
           /\ prompt[p][i].rank = i
           /\ prompt[p][i].repository = results[p][i].repository

\* A prompt of the main handler built from more records than it lists.
C27_Witness ==
  \E p \in Procs :
    /\ steps[p] = <<"generate_response">>
    /\ Len(results[p]) > PromptRecords
    /\ Len(prompt[p]) = PromptRecords
    /\ results[p][1].repository # results[p][2].repository

\* C28 (the claim as stated): for an identity with a finite limit L, the
\* stored count of a day never exceeds L, and no more requests are counted on
\* that day than the limit left room for, however the checks and increments of
\* concurrent requests interleave.
C28_QuotaNeverExceeded ==
  \A uid \in UserIds, d \in Dates :
    LET lim == limits(TierOfUser(uid))
    IN ~ lim.inf =>
         /\ current_count(table[uid][d]) <= lim.n
         /\ incs[uid][d] <= lim.n - StartCount(uid, d)

\* C29 (the claim as stated): every request that got past the quota check and
\* on to the index load has raised the stored count of its key, a failure of
\* the counter store during the increment notwithstanding.
C29_EveryServedCounted ==
  \A p \in Procs : InSeq("load", steps[p]) => inc_wrote[p]

\* C29 (amended): a request that got past the quota check and on to the index
\* load has raised the stored count of its key by exactly one, unless the
\* put_item of its increment failed, and then it is served without being
\* counted; a request writes the usage table in one step at most, which adds
\* exactly one to the count of its key.
C29_CountedUnlessPutFailed ==
  /\ [](\A p \in Procs :
          InSeq("load", steps[p]) => (inc_wrote[p] <=> "put_item" \notin store_errs[p]))
  /\ [][\A p \in Procs :
          pc'[p] # pc[p] =>
            /\ table' # table => (~ inc_wrote[p] /\ inc_wrote'[p])
            /\ (~ inc_wrote[p] /\ inc_wrote'[p]) =>
                 current_count(table'[user_id[p]][inc_today'[p]])
                   = current_count(table[user_id[p]][inc_today'[p]]) + 1]_vars

\* C29 witness: a request counted once on its way to a 200, over a record
\* that existed at the start and has been raised twice since.
C29_Witness ==
  \E p \in Procs :
    /\ response[p].statusCode = 200 /\ inc_wrote[p] /\ store_errs[p] = {}
    /\ count0[user_id[p]] > 0
    /\ incs[user_id[p]][0] >= 2

\* The limiter state of a usage record under the limit of its identity:
\* 0 no-record, 1 under-limit, 2 at-limit.
LimiterState(uid, item) ==
  IF ~ item.present THEN 0
  ELSE IF below_limit(current_count(item), limits(TierOfUser(uid))) THEN 1
  ELSE 2

\* C30: in every step, for each (identity, date), a record that exists still
\* exists after it, its count is not lower than before, and its limiter state
\* (no-record, under-limit, at-limit) has not moved back.
C30_ForwardOnly ==
  [][\A uid \in UserIds, d \in Dates :
       /\ table[uid][d].present => table'[uid][d].present
       /\ current_count(table'[uid][d]) >= current_count(table[uid][d])
       /\ LimiterState(uid, table'[uid][d]) >= LimiterState(uid, table[uid][d])]_vars

\* C30 witness: the anonymous identity's record, absent at the start, created
\* and raised to its limit by update_item.
C30_Witness ==
  /\ last.op = "increment" /\ last.outcome = "added"
  /\ last.user_id = "ip1_h" /\ count0["ip1_h"] = 0
  /\ LimiterState("ip1_h", table["ip1_h"][0]) = 2

\* C31: when get_user_id is given an API key whose lookup raises or finds no
\* account, it returns, without raising, the fingerprint of the request with
\* tier anonymous, whose limit is the finite anonymous one.
C31_LookupFallback ==
  \A p \in Procs :
    (steps[p] = <<"get_user_id">> /\ ApiKeyOf(event[p]) # NoKey
       /\ ("scan" \in store_errs[p] \/ UserOfKey(ApiKeyOf(event[p])).user_id = Missing)) =>
      /\ pc[p] = "done"
      /\ user_id[p] = Fingerprint(event[p].sourceIp, event[p].userAgent)
      /\ tier[p] = "anonymous"
      /\ limits(tier[p]) = [inf |-> FALSE, n |-> 3]

\* C31 witness: a request with the key of the pro account, whose scan raised,
\* resolved to the fingerprint.
C31_Witness ==
  \E p \in Procs :
    /\ steps[p] = <<"get_user_id">> /\ ApiKeyOf(event[p]) = "key_pro"
    /\ "scan" \in store_errs[p]
    /\ user_id[p] = "ip1_h" /\ tier[p] = "anonymous"

\* The waits of a call so far are 5, 10, 20, 40, 80, ... in this order.
BackoffWaits ==
  \A i \in 1 .. Len(gen.waits) : gen.waits[i] = 5 * Pow2(i - 1)

\* C32: generate_embedding calls the backend at most 'retries' times and
\* returns: every error before the last one was a throttling error followed by
\* a wait of 5 * 2^attempt seconds; it returns the embedding on the first call
\* that succeeds, and None after an error that is not throttling or after the
\* wait that follows its last throttled attempt.
C32_BoundedRetry ==
  /\ [](/\ gen.calls <= gen.retries
        /\ gen.calls <= MaxRetries
        /\ gen.submitted <= MaxEmbedChars
        /\ BackoffWaits
        /\ \A i \in 1 .. Len(gen.errors) - 1 : is_throttling(gen.errors[i])
        /\ gen.pc = "call" =>
             /\ Len(gen.waits) = gen.calls
             /\ \A i \in 1 .. Len(gen.errors) : is_throttling(gen.errors[i])
        /\ gen.pc = "done" =>
             \/ /\ gen.ret = "embedding"
                /\ Len(gen.errors) = gen.calls - 1
                /\ Len(gen.waits) = gen.calls - 1
             \/ /\ gen.ret = "None"
                /\ Len(gen.errors) = gen.calls
                /\ \/ /\ gen.calls = gen.retries
                      /\ Len(gen.waits) = gen.calls
                      /\ \A i \in 1 .. Len(gen.errors) : is_throttling(gen.errors[i])
                   \/ /\ gen.calls >= 1
                      /\ ~ is_throttling(gen.errors[gen.calls])
                      /\ Len(gen.waits) = gen.calls - 1)
  /\ (gen.pc = "call" ~> gen.pc = "done")

\* C32 witness: a call with the default retries, throttled five times,
\* that waited 5, 10, 20, 40 and 80 seconds and returned None.
C32_Witness ==
  /\ gen.pc = "done" /\ gen.retries = DefaultRetries /\ gen.calls = DefaultRetries
  /\ gen.waits = <<5, 10, 20, 40, 80>>
  /\ gen.ret = "None"

\* List v holds one vector per document 0 .. Len(v)-1, in order, and list m
\* does so for the records.
VectorsInOrder(v) == \A i \in 1 .. Len(v) : v[i].doc = i - 1
RecordsInOrder(m) == \A i \in 1 .. Len(m) : m[i] = i - 1

\* C33 (the claim as stated): in both builders, after every document, the
\* vector list and the record list have the same length, the number of
\* documents processed, with vector i and record i of document i; the stored
\* checkpoint's 'processed' is that length and is at most 'total'.
C33_ListsAligned ==
  /\ run.kind # "none" =>
       /\ Len(run.embeddings) = run.idx
       /\ Len(run.metadata) = run.idx
       /\ VectorsInOrder(run.embeddings)
       /\ RecordsInOrder(run.metadata)
  /\ ckpt.present =>
       /\ ckpt.processed = Len(ckpt.embeddings)
       /\ ckpt.processed = Len(ckpt.metadata)
       /\ ckpt.processed <= ckpt.total

\* C33 (amended): in the resumable builder the two lists have the same length,
\* the number of documents processed, after every document; in
\* build_faiss_index.py the record list holds all documents from the start,
\* the vector list one vector per processed document, and they have the same
\* length when the files are written. In both, vector i and record i are of
\* document i, zero placeholders included, and the stored checkpoint's
\* 'processed' is the length of its lists and at most 'total'.
C33_ListsAlignedWhenSaved ==
  /\ run.kind # "none" =>
       /\ Len(run.embeddings) = run.idx
       /\ VectorsInOrder(run.embeddings)
       /\ RecordsInOrder(run.metadata)
       /\ run.idx <= run.total
  /\ run.kind = "resumable" => Len(run.metadata) = run.idx
  /\ run.kind = "simple" =>
       /\ Len(run.metadata) = run.total
       /\ run.pc = "returned" => Len(run.embeddings) = Len(run.metadata)
  /\ ckpt.present =>
       /\ ckpt.processed = Len(ckpt.embeddings)
       /\ ckpt.processed = Len(ckpt.metadata)
       /\ ckpt.processed <= ckpt.total
       /\ VectorsInOrder(ckpt.embeddings)
       /\ RecordsInOrder(ckpt.metadata)

\* C33 witness: a resumed run that has put a zero placeholder for the third
\* document next to two stored vectors.
C33_Witness ==
  /\ run.kind = "resumable" /\ run.start_idx = 2 /\ run.idx = 3
  /\ run.embeddings[3].zero /\ ~ run.embeddings[1].zero
  /\ Len(run.metadata) = 3

\* The run has got past its save_checkpoint.
RunSaved == run.kind = "resumable" /\ run.pc \in {"returned", "uploadIndex", "uploadMeta", "delete"}

\* C34 (the claim as stated): a run that found processed = p stored saves
\* min(p + batch_size, total); the stored value never goes backwards; the
\* index and the records are uploaded, with 'total' entries each, only in a run
\* whose processed has reached total; and once ceil(total / batch_size) runs
\* have ended without an exception the build has been published.
C34_MonotonicProgress ==
  /\ [](/\ RunSaved =>
             /\ run.end_idx = Min(progress.stored_before + run.batch_size, run.total)
             /\ ckpt.present => ckpt.processed >= progress.stored_before
        /\ run.pc \in {"uploadIndex", "uploadMeta", "delete"} =>
             /\ run.end_idx = run.total
             /\ Len(run.embeddings) = run.total /\ Len(run.metadata) = run.total
        /\ (run.kind = "resumable" /\ run.pc = "returned" /\ progress.crashes = 0
              /\ progress.runs * progress.batch_size >= progress.total) =>
             progress.uploads >= 1)
  /\ [][(ckpt.present /\ ckpt'.present) => ckpt'.processed >= ckpt.processed]_vars

\* C35 (the claim as stated): a run that starts while a checkpoint with
\* processed = p > 0 is stored resumes at document p with the p stored vectors
\* and records, a failed read of the checkpoint included, and no checkpoint
\* is replaced by a shorter one.
C35_ResumeKeepsProgress ==
  /\ []((run.kind = "resumable" /\ run.pc # "idle" /\ progress.stored_before > 0) =>
          /\ run.start_idx = progress.stored_before
          /\ Len(run.embeddings) >= progress.stored_before
          /\ Len(run.metadata) >= progress.stored_before)
  /\ [][(ckpt.present /\ ckpt'.present) =>
          Len(ckpt'.embeddings) >= Len(ckpt.embeddings)]_vars

\* C36 (the claim as stated): the index and the records a cache-miss load
\* leaves in the cache are those of one build, whatever the builder uploads
\* while the two downloads are made; in particular they have one length.
C36_CachedPairOfOneBuild ==
  reader.pc = "cached" =>
    /\ reader.index_build = reader.metadata_build
    /\ Len(index_cache[BuildOrg].v) = Len(metadata_cache[BuildOrg].v)
====
